---- MODULE Spec2Model ----
(***************************************************************************)
(* Guest-kernel memory manager of Quark (qkernel/src/memmgr/mm.rs and      *)
(* qkernel/src/threadmgr/task_usermem.rs).                                  *)
(*                                                                         *)
(* Addresses are bytes; a page has PAGE_SIZE bytes (scaled down from 4096). *)
(* VMA ranges and page-table leaves are kept per page number.  Page 0 is    *)
(* the page of the null address, pages 1..NUserPages are the application    *)
(* range, KernelPage is the kernel VMA [PHY_LOWER_ADDR, PHY_UPPER_ADDR).    *)
(***************************************************************************)
EXTENDS Integers, Sequences, FiniteSets, Bags, TLC

\* ---------------------------------------------------------------- bounds
MaxMM == 2          \* number of address spaces NewUID may hand out
NUserPages == 2     \* pages of the application address range
NAnonFrames == 3    \* frames the page allocator can hand out
MaxWrites == 1      \* number of CopyDataOut transfers in one run
MaxMaps == 1        \* number of mmap calls in one run
MaxPages == 3       \* pages of the longest range handed to GetBlocks
MaxCalls == 2       \* number of object transfers in one run
MaxLen == 3         \* longest maxlen / maxElemSize of a string call
MaxClears == 1      \* no drop starts on an MM whose Drop ran Clear this often

\* ------------------------------------------------------ program constants
PAGE_SIZE == 2      \* MemoryDef::PAGE_SIZE, scaled down from 4096
U64 == 2 ^ 20       \* modulus of the u64 counters, scaled down from 2^64

MMIds == 1 .. MaxMM
NullPage == 0
UserPages == 1 .. NUserPages
KernelPage == NUserPages + 1       \* [PHY_LOWER_ADDR, PHY_UPPER_ADDR)
LOWER_TOP == NUserPages + 2        \* end of the default AreaSet domain
FULL_TOP == NUserPages + 3         \* end of the domain AreaSet::New(0, !0)
Pages == 0 .. (FULL_TOP - 1)

\* frames: anonymous frames of the allocator, the pages of the one file,
\* the host pages of the vdso, the frame behind the kernel mapping
AnonFrames == 1 .. NAnonFrames
FileFrame(fp) == NAnonFrames + 1 + fp
VdsoFrame(i) == NAnonFrames + NUserPages + 1 + i
KernelFrame == NAnonFrames + 2 * NUserPages + 1
Frames == 1 .. KernelFrame
FileFrames == {FileFrame(fp) : fp \in 0 .. (NUserPages - 1)}
NoFrame == 0

Bytes == {0, 1, 2}
NoLeaf == [frame |-> NoFrame, w |-> FALSE]
Leaf(f, w) == [frame |-> f, w |-> w]

Min(a, b) == IF a < b THEN a ELSE b
Max(a, b) == IF a < b THEN b ELSE a
RoundDown(a) == a - (a % PAGE_SIZE)
RoundUp(a) == RoundDown(a + PAGE_SIZE - 1)
PageOf(a) == a \div PAGE_SIZE

\* u64 arithmetic of the counters (release build: wrapping)
U64Add(a, b) == (a + b) % U64
U64Sub(a, b) == (a - b + U64) % U64

VARIABLES
    inited,     \* MemoryManagerInternal.inited, per MM; FALSE also for ids not yet created
    alive,      \* the MM has a live handle (Arc strong count > 0)
    vmas,       \* MemoryManagerInternal.vmas: the segments in key order
    domain,     \* vmas.range as <<start, end>> in pages
    usageAS,    \* MemoryManagerInternal.usageAS (bytes)
    curRSS,     \* MemoryManagerInternal.curRSS (bytes)
    maxRSS,     \* MemoryManagerInternal.maxRSS (bytes)
    pt,         \* MemoryManagerInternal.pt: page -> leaf
    refcnt,     \* PAGE_MGR reference count per frame
    mem,        \* physical memory: frame -> byte offset -> byte
    maprefs,    \* the Mappable's mapping set: bag of [mm, vpage, fpage]
    UID,        \* the UID counter
    writes,     \* number of user-memory transfers so far
    maps,       \* number of mmap calls so far
    last,       \* the last operation, its arguments and result
    task,       \* per thread: the entry point it is in and its position there
    mapping,    \* the MM's metadata lock (MappingLock): the thread that holds
                \* it in write mode, 0 when free
    lock,       \* MemoryManagerInternal.lock: the thread that holds it, 0 when free
    handle,     \* per thread: the MemoryManager / MemoryManagerWeak value it holds
    dropClears, \* per MM: how often Drop for MemoryManager has run Clear on it
    cr3,        \* per thread: the page table loaded on the CPU it runs on, the
                \* uid of its MM, 0 for KERNEL_PAGETABLE
    uids,       \* the MMs made so far, in the order of their NewUID() calls
    extMu,      \* KernelInternal.extMu: the thread that holds its guard, 0 when free
    globalInit, \* KernelInternal.globalInit: 0 is None, else the thread group
    created,    \* number of thread groups newThreadGroup has made
    proc        \* per thread: its position in CreateProcess and its locals

vars == <<inited, alive, vmas, domain, usageAS, curRSS, maxRSS, pt, refcnt, mem,
          maprefs, UID, writes, maps, last, task, mapping, lock, handle,
          dropClears, cr3, uids, extMu, globalInit, created, proc>>
\* the state of the Kernel
kvars == <<extMu, globalInit, created, proc>>

\* ------------------------------------------------------------------ VMA
\* mappable: 0 is None, 1 the file.  offset in pages.  write is
\* effectivePerms.Write().
VMA(mappable, offset, private, write, kernel) ==
    [mappable |-> mappable, offset |-> offset, private |-> private,
     write |-> write, kernel |-> kernel]
Seg(start, end, vma) == [start |-> start, end |-> end, vma |-> vma]

KernelVMA == VMA(0, 0, TRUE, TRUE, TRUE)

\* ------------------------------------------------- AreaSet (interval set)
\* index of the segment containing page p, 0 if p lies in a gap
FindSeg(segs, p) ==
    LET hit == {i \in 1 .. Len(segs) : segs[i].start <= p /\ p < segs[i].end}
    IN IF hit = {} THEN 0 ELSE CHOOSE i \in hit : TRUE

\* index of the first segment that ends after p (Find, then NextSeg of the gap)
FirstSegFrom(segs, p) ==
    LET later == {i \in 1 .. Len(segs) : segs[i].end > p}
    IN IF later = {} THEN 0 ELSE CHOOSE i \in later : \A j \in later : i <= j

\* VMA::Split: the right half of a file mapping starts later in the file
SplitRight(seg, at) ==
    Seg(at, seg.end,
        IF seg.vma.mappable # 0
        THEN [seg.vma EXCEPT !.offset = seg.vma.offset + (at - seg.start)]
        ELSE seg.vma)

\* Isolate(seg, range): split segment i so that the part inside [s, e) is a
\* segment of its own; returns the new sequence and the index of that part
Isolate(segs, i, s, e) ==
    LET seg == segs[i]
        cutL == seg.start < s
        cutR == e < seg.end
        mid == IF cutL THEN SplitRight(seg, s) ELSE seg
        left == IF cutL THEN <<Seg(seg.start, s, seg.vma)>> ELSE <<>>
        right == IF cutR THEN <<SplitRight(mid, e)>> ELSE <<>>
        mid2 == IF cutR THEN Seg(mid.start, e, mid.vma) ELSE mid
    IN [segs |-> SubSeq(segs, 1, i - 1) \o left \o <<mid2>> \o right
                    \o SubSeq(segs, i + 1, Len(segs)),
        idx |-> IF cutL THEN i + 1 ELSE i]

RemoveSeg(segs, i) == SubSeq(segs, 1, i - 1) \o SubSeq(segs, i + 1, Len(segs))

\* Insert(gap, range, vma): the new segment goes into the gap that follows
\* segment number g (g = 0: the first gap)
InsertSeg(segs, g, seg) ==
    SubSeq(segs, 1, g) \o <<seg>> \o SubSeq(segs, g + 1, Len(segs))

\* the gap (number of the segment before it) in which page p lies
FindGap(segs, p) == Cardinality({i \in 1 .. Len(segs) : segs[i].end <= p})

\* ------------------------------------------------------ page-table engine
\* The engine works on one MM's table t (page -> leaf) and on the allocator's
\* reference counts r; every operator returns the pair it leaves behind.
Ref(r, f) == [r EXCEPT ![f] = @ + 1]
Deref(r, f) == [r EXCEPT ![f] = @ - 1]

\* MapPage(va, pa, flags): takes a reference on the new frame and drops the
\* one of a frame it replaces
MapPage(t, r, p, f, w) ==
    LET r1 == Ref(r, f)
    IN [pt |-> [t EXCEPT ![p] = Leaf(f, w)],
        ref |-> IF t[p].frame # NoFrame THEN Deref(r1, t[p].frame) ELSE r1]

\* MUnmap(va, len): removes the leaves of [s, e) and frees their frame refs
MUnmap(t, r, s, e) ==
    LET gone == {p \in Pages : s <= p /\ p < e /\ t[p].frame # NoFrame}
    IN [pt |-> [p \in Pages |-> IF p \in gone THEN NoLeaf ELSE t[p]],
        ref |-> [f \in Frames |->
                    r[f] - Cardinality({p \in gone : t[p].frame = f})]]

\* SetPageFlags(va, flags) with UserReadWrite
SetPageFlags(t, p, w) == [t EXCEPT ![p].w = w]

\* VirtualToPhy(va): the leaf, NoLeaf standing for AddressNotMapped
VirtualToPhy(t, p) == t[p]

IsUserLeaf(t, p) == p # KernelPage /\ t[p].frame # NoFrame

\* Fork(pm): both tables end with every user leaf read-only, the child owns
\* a reference on every frame it maps
PtFork(t, r) ==
    LET ro == [p \in Pages |-> IF IsUserLeaf(t, p) THEN Leaf(t[p].frame, FALSE) ELSE t[p]]
    IN [src |-> ro, dst |-> ro,
        ref |-> [f \in Frames |->
                    r[f] + Cardinality({p \in Pages : IsUserLeaf(t, p) /\ t[p].frame = f})]]

RECURSIVE RangeCopy(_, _, _, _, _, _)
\* the common loop of ForkRange (cow = TRUE) and CopyRange (cow = FALSE)
RangeCopy(src, dst, r, p, e, cow) ==
    IF p >= e THEN [src |-> src, dst |-> dst, ref |-> r]
    ELSE IF src[p].frame = NoFrame THEN RangeCopy(src, dst, r, p + 1, e, cow)
    ELSE LET w == IF cow THEN FALSE ELSE src[p].w
             m == MapPage(dst, r, p, src[p].frame, w)
         IN RangeCopy([src EXCEPT ![p].w = w], m.pt, m.ref, p + 1, e, cow)

ForkRange(src, dst, r, s, e) == RangeCopy(src, dst, r, s, e, TRUE)
CopyRange(src, dst, r, s, e) == RangeCopy(src, dst, r, s, e, FALSE)

\* the global kernel page table, forked by MemoryManagerInternal::Init
KernelPt == [p \in Pages |-> IF p = KernelPage THEN Leaf(KernelFrame, TRUE) ELSE NoLeaf]

\* ------------------------------------------------------------- allocator
FreeFrames(r) == {f \in AnonFrames : r[f] = 0}
\* AllocPage(false): a frame nobody references; its bytes are whatever the
\* previous owner left there
AllocPage(r) == CHOOSE f \in FreeFrames(r) : \A g \in FreeFrames(r) : f <= g

\* ---------------------------------------------- fault handling of one MM
\* S = [pt, ref, mem, oom]: the MM's table, the allocator, physical memory,
\* and whether an AllocPage found no frame (the unwrap() then aborts)
St(t, r, m, oom) == [pt |-> t, ref |-> r, mem |-> m, oom |-> oom]

MapPageRead(S, p, f) ==
    LET m == MapPage(S.pt, S.ref, p, f, FALSE) IN [S EXCEPT !.pt = m.pt, !.ref = m.ref]
MapPageWrite(S, p, f) ==
    LET m == MapPage(S.pt, S.ref, p, f, TRUE) IN [S EXCEPT !.pt = m.pt, !.ref = m.ref]
EnableWrite(S, p) == [S EXCEPT !.pt = SetPageFlags(S.pt, p, TRUE)]

\* an InstallPage that looks at effectivePerms.Write() only, not at private
InstallPage_IgnorePrivate(S, seg, p) ==
    IF VirtualToPhy(S.pt, p).frame # NoFrame THEN S
    ELSE IF seg.vma.mappable # 0
    THEN LET phyAddr == FileFrame((p - seg.start) + seg.vma.offset)
         IN IF seg.vma.write THEN MapPageWrite(S, p, phyAddr)
            ELSE MapPageRead(S, p, phyAddr)
    ELSE IF FreeFrames(S.ref) = {} THEN [S EXCEPT !.oom = TRUE]
    ELSE LET phyAddr == AllocPage(S.ref)
         IN IF seg.vma.write THEN MapPageWrite(S, p, phyAddr)
            ELSE MapPageRead(S, p, phyAddr)

\* an InstallPage that maps a page whether the address is mapped or not
InstallPage_NoCheck(S, seg, p) ==
    IF seg.vma.mappable # 0
    THEN LET phyAddr == FileFrame((p - seg.start) + seg.vma.offset)
         IN IF seg.vma.private THEN MapPageRead(S, p, phyAddr)
            ELSE IF seg.vma.write THEN MapPageWrite(S, p, phyAddr)
            ELSE MapPageRead(S, p, phyAddr)
    ELSE IF FreeFrames(S.ref) = {} THEN [S EXCEPT !.oom = TRUE]
    ELSE LET phyAddr == AllocPage(S.ref)
         IN IF seg.vma.private THEN MapPageRead(S, p, phyAddr)
            ELSE IF seg.vma.write THEN MapPageWrite(S, p, phyAddr)
            ELSE MapPageRead(S, p, phyAddr)

InstallPage(S, seg, p) ==
    IF VirtualToPhy(S.pt, p).frame # NoFrame THEN S
    ELSE IF seg.vma.mappable # 0
    THEN LET phyAddr == FileFrame((p - seg.start) + seg.vma.offset)
         IN IF seg.vma.private THEN MapPageRead(S, p, phyAddr)
            ELSE IF seg.vma.write THEN MapPageWrite(S, p, phyAddr)
            ELSE MapPageRead(S, p, phyAddr)
    ELSE IF FreeFrames(S.ref) = {} THEN [S EXCEPT !.oom = TRUE]
    ELSE LET phyAddr == AllocPage(S.ref)
         IN IF seg.vma.private THEN MapPageRead(S, p, phyAddr)
            ELSE IF seg.vma.write THEN MapPageWrite(S, p, phyAddr)
            ELSE MapPageRead(S, p, phyAddr)

\* InstallPageWithAddr: EFAULT when no VMA contains the page
InstallPageWithAddr(S, segs, p) ==
    LET i == FindSeg(segs, p)
    IN IF i = 0 THEN [ok |-> FALSE, S |-> S]
       ELSE [ok |-> TRUE, S |-> InstallPage(S, segs[i], p)]

\* a CopyOnWriteLocked that enables the write only for an unshared anonymous
\* frame and leaves every other leaf as it is (the copy branch is missing)
CopyOnWriteLocked_NoCopy(S, p, vma) ==
    LET leaf == VirtualToPhy(S.pt, p)
    IN IF leaf.w THEN S
       ELSE IF S.ref[leaf.frame] = 1 /\ vma.mappable = 0 THEN EnableWrite(S, p)
       ELSE S

\* a CopyOnWriteLocked that never looks at the frame's reference count
CopyOnWriteLocked_InPlace(S, p, vma) ==
    LET leaf == VirtualToPhy(S.pt, p)
    IN IF leaf.w THEN S
       ELSE IF vma.mappable = 0 THEN EnableWrite(S, p)
       ELSE IF FreeFrames(S.ref) = {} THEN [S EXCEPT !.oom = TRUE]
       ELSE LET page == AllocPage(S.ref)
                copied == [S EXCEPT !.mem[page] = S.mem[leaf.frame]]
            IN MapPageWrite(copied, p, page)

\* a CopyOnWriteLocked that does not look whether the leaf is writable by now
CopyOnWriteLocked_NoRaceCheck(S, p, vma) ==
    LET leaf == VirtualToPhy(S.pt, p)
    IN IF S.ref[leaf.frame] = 1 /\ vma.mappable = 0 THEN EnableWrite(S, p)
       ELSE IF FreeFrames(S.ref) = {} THEN [S EXCEPT !.oom = TRUE]
       ELSE LET page == AllocPage(S.ref)
                copied == [S EXCEPT !.mem[page] = S.mem[leaf.frame]]
            IN MapPageWrite(copied, p, page)

\* a CopyOnWriteLocked whose new frame is not filled from the old page
CopyOnWriteLocked_NoBytes(S, p, vma) ==
    LET leaf == VirtualToPhy(S.pt, p)
    IN IF leaf.w THEN S
       ELSE IF S.ref[leaf.frame] = 1 /\ vma.mappable = 0 THEN EnableWrite(S, p)
       ELSE IF FreeFrames(S.ref) = {} THEN [S EXCEPT !.oom = TRUE]
       ELSE MapPageWrite(S, p, AllocPage(S.ref))

CopyOnWriteLocked(S, p, vma) ==
    LET leaf == VirtualToPhy(S.pt, p)
    IN IF leaf.w THEN S
       ELSE IF S.ref[leaf.frame] = 1 /\ vma.mappable = 0 THEN EnableWrite(S, p)
       ELSE IF FreeFrames(S.ref) = {} THEN [S EXCEPT !.oom = TRUE]
       ELSE LET page == AllocPage(S.ref)
                copied == [S EXCEPT !.mem[page] = S.mem[leaf.frame]]
            IN MapPageWrite(copied, p, page)

Ok(v, S) == [ok |-> TRUE, val |-> v, err |-> "", S |-> S]
Err(e, S) == [ok |-> FALSE, val |-> 0, err |-> e, S |-> S]

RECURSIVE FixLoop(_, _, _, _, _, _, _)
\* the while loop of FixPermission, addr the page-aligned address it is at
FixLoop(S, segs, addr, vAddr, len, writeReq, allowPartial) ==
    IF ~(addr <= vAddr + len - 1) THEN Ok(len, S)
    ELSE IF addr = 0 THEN Err("EFAULT", S)
    ELSE
      LET p == PageOf(addr)
          i == FindSeg(segs, p)
          \* after CopyOnWrite(addr, &vma) left the state S2
          Copied(S2) ==
              IF S2.oom THEN Err("OOM", S2)
              ELSE FixLoop(S2, segs, addr + PAGE_SIZE, vAddr, len, writeReq, allowPartial)
          \* after the match on VirtualToPhy(addr), inst the result of the
          \* InstallPageWithAddr it may have called
          Installed(inst) ==
              IF ~inst.ok THEN Err("EFAULT", inst.S)
              ELSE IF inst.S.oom THEN Err("OOM", inst.S)
              ELSE IF writeReq /\ ~VirtualToPhy(inst.S.pt, p).w
              THEN IF i = 0 \/ ~segs[i].vma.write
                   THEN IF allowPartial /\ addr < vAddr
                        THEN Err("EFAULT", inst.S)
                        ELSE Ok(U64Sub(addr, vAddr), inst.S)
                   ELSE Copied(CopyOnWriteLocked(inst.S, p, segs[i].vma))
              ELSE FixLoop(inst.S, segs, addr + PAGE_SIZE, vAddr, len, writeReq,
                           allowPartial)
      IN Installed(IF VirtualToPhy(S.pt, p).frame = NoFrame
                   THEN InstallPageWithAddr(S, segs, p)
                   ELSE [ok |-> TRUE, S |-> S])

\* a FixPermission that fixes the page of vAddr only and reports the whole
\* length
FixPermission_FirstPageOnly(S, segs, vAddr, len, writeReq, allowPartial) ==
    LET First(fix) == IF fix.ok THEN Ok(len, fix.S) ELSE fix
    IN IF vAddr = 0 THEN Err("EFAULT", S)
       ELSE First(FixLoop(S, segs, RoundDown(vAddr), vAddr, 1, writeReq, allowPartial))

\* a FixPermission that handles every call as a write fault
FixPermission_CowOnRead(S, segs, vAddr, len, writeReq, allowPartial) ==
    IF vAddr = 0 THEN Err("EFAULT", S)
    ELSE FixLoop(S, segs, RoundDown(vAddr), vAddr, len, TRUE, allowPartial)

FixPermission(S, segs, vAddr, len, writeReq, allowPartial) ==
    IF (U64 - 1) - vAddr < len \/ vAddr = 0 THEN Err("EFAULT", S)
    ELSE FixLoop(S, segs, RoundDown(vAddr), vAddr, len, writeReq, allowPartial)

\* ------------------------------------------------------ iovec translation
\* physical byte address of offset o in frame f
Phys(f, o) == f * PAGE_SIZE + o
IoVec(start, len) == [start |-> start, len |-> len]

\* MemoryManager::VirtualToPhy: EFAULT for the null address, otherwise the
\* answer of the page table, its AddressNotMap error included
MemoryManager_VirtualToPhy(t, vAddr) ==
    IF vAddr = 0 THEN [ok |-> FALSE, err |-> "EFAULT", pAddr |-> 0, writable |-> FALSE]
    ELSE LET leaf == VirtualToPhy(t, PageOf(vAddr))
         IN IF leaf.frame = NoFrame
            THEN [ok |-> FALSE, err |-> "AddressNotMap", pAddr |-> 0, writable |-> FALSE]
            ELSE [ok |-> TRUE, err |-> "", pAddr |-> Phys(leaf.frame, vAddr % PAGE_SIZE),
                  writable |-> leaf.w]

\* a walk that emits the whole of [start, end) as one iovec
V2PWalk_NoSplit(t, start, end, output) ==
    LET leaf == VirtualToPhy(t, PageOf(start))
    IN IF ~(start < end) THEN [ok |-> TRUE, iovs |-> output]
       ELSE IF start = 0 \/ leaf.frame = NoFrame THEN [ok |-> FALSE, iovs |-> output]
       ELSE [ok |-> TRUE,
             iovs |-> Append(output, IoVec(Phys(leaf.frame, start % PAGE_SIZE),
                                           end - start))]

RECURSIVE V2PWalk(_, _, _, _)
\* the while loop of V2PIov: one iovec per page touched by [start, end)
V2PWalk(t, start, end, output) ==
    IF ~(start < end) THEN [ok |-> TRUE, iovs |-> output]
    ELSE LET next == IF start % PAGE_SIZE = 0 THEN start + PAGE_SIZE ELSE RoundUp(start)
             leaf == VirtualToPhy(t, PageOf(start))
         IN IF start = 0 \/ leaf.frame = NoFrame THEN [ok |-> FALSE, iovs |-> output]
            ELSE V2PWalk(t, next, end,
                         Append(output,
                                IoVec(Phys(leaf.frame, start % PAGE_SIZE),
                                      IF end < next THEN end - start ELSE next - start)))

\* a ToBlocks that pushes one block per page
ToBlocks_NoCoalesce(arr) == [i \in 1 .. Len(arr) |-> IoVec(arr[i], PAGE_SIZE)]

RECURSIVE ToBlocksLoop(_, _, _, _, _)
\* the for loop of ToBlocks at index i (arr[i] of the source is arr[i + 1])
ToBlocksLoop(bs, arr, i, begin, expect) ==
    IF i > Len(arr) THEN Append(bs, IoVec(begin, expect - begin))
    ELSE IF arr[i] = expect
    THEN ToBlocksLoop(bs, arr, i + 1, begin, expect + PAGE_SIZE)
    ELSE ToBlocksLoop(Append(bs, IoVec(begin, expect - begin)), arr, i + 1,
                      arr[i], arr[i] + PAGE_SIZE)

\* ToBlocks(bs, arr) for a non-empty arr: the blocks pushed
ToBlocks(arr) == ToBlocksLoop(<<>>, arr, 2, arr[1], arr[1] + PAGE_SIZE)

\* GetBlocks(start, len, bs, writeable) once GetAddresses has filled vec with
\* the physical address of every page of [alignedStart, alignedEnd): the
\* blocks of vec, the first trimmed by startOff, the last by endOff
GetBlocks(vec, start, len) ==
    LET alignedStart == RoundDown(start)
        alignedEnd == RoundUp(start + len)
        startOff == start - alignedStart
        endOff == alignedEnd - (start + len)
        Trimmed(bs) ==
            LET first == [bs EXCEPT ![1] = IoVec(@.start + startOff, @.len - startOff)]
            IN [first EXCEPT ![Len(bs)] = IoVec(@.start, @.len - endOff)]
    IN Trimmed(ToBlocks(vec))

\* V2PIov: FixPermission (its short count is dropped by the ?), then the walk
V2PIov(S, segs, start, len, writable) ==
    LET Walked(fix, walk) ==
            IF ~walk.ok THEN [ok |-> FALSE, err |-> "EFAULT", iovs |-> <<>>, S |-> fix.S]
            ELSE [ok |-> TRUE, err |-> "", iovs |-> walk.iovs, S |-> fix.S]
        Fixed(fix) ==
            IF ~fix.ok THEN [ok |-> FALSE, err |-> fix.err, iovs |-> <<>>, S |-> fix.S]
            ELSE Walked(fix, V2PWalk(fix.S.pt, start, start + len, <<>>))
    IN Fixed(FixPermission(S, segs, start, len, writable, FALSE))

\* V2PLocked: the same translation with the metadata lock already held
V2PLocked(S, segs, start, len, writable) == V2PIov(S, segs, start, len, writable)

RECURSIVE CopyOutIovs_NoOffset(_, _, _, _)
\* a copy loop that never advances in src: every iovec gets its first bytes
CopyOutIovs_NoOffset(m, iovs, src, offset) ==
    IF iovs = <<>> THEN m
    ELSE LET iov == Head(iovs)
             f == iov.start \div PAGE_SIZE
             o == iov.start % PAGE_SIZE
             m1 == [m EXCEPT ![f] = [b \in 0 .. (PAGE_SIZE - 1) |->
                        IF o <= b /\ b < o + iov.len
                        THEN src[offset + (b - o) + 1] ELSE @[b]]]
         IN CopyOutIovs_NoOffset(m1, Tail(iovs), src, offset)

RECURSIVE CopyOutIovs(_, _, _, _)
\* the for loop of CopyDataOutLocked: src[offset ..] goes to each iovec in turn
CopyOutIovs(m, iovs, src, offset) ==
    IF iovs = <<>> THEN m
    ELSE LET iov == Head(iovs)
             f == iov.start \div PAGE_SIZE
             o == iov.start % PAGE_SIZE
             m1 == [m EXCEPT ![f] = [b \in 0 .. (PAGE_SIZE - 1) |->
                        IF o <= b /\ b < o + iov.len
                        THEN src[offset + (b - o) + 1] ELSE @[b]]]
         IN CopyOutIovs(m1, Tail(iovs), src, offset + iov.len)

RECURSIVE CopyInIovs(_, _)
\* the for loop of CopyDataInLocked: the bytes behind the iovecs, in order
CopyInIovs(m, iovs) ==
    IF iovs = <<>> THEN <<>>
    ELSE LET iov == Head(iovs)
             f == iov.start \div PAGE_SIZE
             o == iov.start % PAGE_SIZE
         IN [i \in 1 .. iov.len |-> m[f][o + i - 1]] \o CopyInIovs(m, Tail(iovs))

\* CopyDataOutLocked(from, vaddr, len): translation with writable = false
CopyDataOutLocked(S, segs, src, vaddr) ==
    LET Translated(v) ==
            IF ~v.ok THEN [ok |-> FALSE, err |-> v.err, S |-> v.S]
            ELSE [ok |-> TRUE, err |-> "",
                  S |-> [v.S EXCEPT !.mem = CopyOutIovs(v.S.mem, v.iovs, src, 0)]]
    IN Translated(V2PLocked(S, segs, vaddr, Len(src), FALSE))

\* CopyDataInLocked(vaddr, to, len): the bytes read
CopyDataInLocked(S, segs, vaddr, len) ==
    LET Translated(v) ==
            IF ~v.ok THEN [ok |-> FALSE, err |-> v.err, data |-> <<>>, S |-> v.S]
            ELSE [ok |-> TRUE, err |-> "", data |-> CopyInIovs(v.S.mem, v.iovs),
                  S |-> v.S]
    IN Translated(V2PLocked(S, segs, vaddr, len, FALSE))

\* CopyInObjLocked<T>(src): size_of::<T>() bytes read at src
CopyInObjLocked(S, segs, src, size) == CopyDataInLocked(S, segs, src, size)

\* CopyOutObjLocked<T>(data, dst): the bytes of data written at dst
CopyOutObjLocked(S, segs, data, dst) == CopyDataOutLocked(S, segs, data, dst)

\* a CompareAndSwap that stores new whatever it has read
CompareAndSwap_Unconditional(S, segs, addr, old, new) ==
    LET Stored(in, out) ==
            IF ~out.ok THEN Err(out.err, out.S) ELSE Ok(in.data, out.S)
        Loaded(in) ==
            IF ~in.ok THEN Err(in.err, in.S)
            ELSE Stored(in, CopyOutObjLocked(in.S, segs, new, addr))
    IN Loaded(CopyInObjLocked(S, segs, addr, Len(old)))

\* CompareAndSwap<T>(addr, old, new): the value read, stored over only when
\* it equals old
CompareAndSwap(S, segs, addr, old, new) ==
    LET Stored(in, out) ==
            IF ~out.ok THEN Err(out.err, out.S) ELSE Ok(in.data, out.S)
        Loaded(in) ==
            IF ~in.ok THEN Err(in.err, in.S)
            ELSE IF in.data # old THEN Ok(in.data, in.S)
            ELSE Stored(in, CopyOutObjLocked(in.S, segs, new, addr))
    IN Loaded(CopyInObjLocked(S, segs, addr, Len(old)))

\* ------------------------------------------------------ strings, vectors
\* size_of::<u64>(), the size of a pointer of the argv array, scaled down
\* from 8: a pointer is one byte and holds a scaled-down address
PTR_SIZE == 1

\* CString::New(s).Slice(): the bytes of s and the terminating NUL
CString(s) == Append(s, 0)

\* FixPermissionLocked: the permission fix with the metadata lock held
FixPermissionLocked(S, segs, vAddr, len, writeReq, allowPartial) ==
    FixPermission(S, segs, vAddr, len, writeReq, allowPartial)

CheckPermissionLocked(S, segs, vAddr, len, writeReq, allowPartial) ==
    IF len = 0 THEN Ok(0, S)
    ELSE IF vAddr = 0 THEN Err("EFAULT", S)
    ELSE FixPermissionLocked(S, segs, vAddr, len, writeReq, allowPartial)

\* CopyInVec<T>(src, count): recordLen * count bytes read at src
CopyInVec(S, segs, src, count, recordLen) ==
    CopyDataInLocked(S, segs, src, recordLen * count)

\* a CopyOutSlice that compares the lengths after the copy
CopyOutSlice_CheckAfter(S, segs, src, dst, len) ==
    LET Copied(out) ==
            IF len < Len(src) THEN [ok |-> FALSE, err |-> "ERANGE", S |-> out.S]
            ELSE out
    IN Copied(CopyDataOutLocked(S, segs, src, dst))

\* CopyOutSlice<T>(src, dst, len) for T = u8: ERANGE before anything else,
\* then CopyDataOut of the whole of src
CopyOutSlice(S, segs, src, dst, len) ==
    IF len < Len(src) THEN [ok |-> FALSE, err |-> "ERANGE", S |-> S]
    ELSE CopyDataOutLocked(S, segs, src, dst)

\* Task::CopyOutString(vAddr, len, s)
CopyOutString(S, segs, vAddr, len, s) == CopyOutSlice(S, segs, CString(s), vAddr, len)

\* the index of the first NUL of data, 0 when it has none
FirstNul(data) ==
    IF \A i \in 1 .. Len(data) : data[i] # 0 THEN 0
    ELSE CHOOSE i \in 1 .. Len(data) :
            data[i] = 0 /\ \A j \in 1 .. (i - 1) : data[j] # 0

\* a CopyInString that hands back all it has read, the NUL and what follows
\* it included
CopyInString_NoTruncate(S, segs, addr, maxlen) ==
    LET Str(s, e, S2) == [str |-> s, err |-> e, S |-> S2]
        Read(chk, in) ==
            IF ~in.ok THEN Str(<<>>, "panic", in.S)
            ELSE IF FirstNul(in.data) # 0 THEN Str(in.data, "", in.S)
            ELSE Str(SubSeq(in.data, 1, chk.val), "ENAMETOOLONG", in.S)
        Checked(chk) ==
            IF ~chk.ok THEN Str(<<>>, chk.err, chk.S)
            ELSE Read(chk, CopyInVec(chk.S, segs, addr, chk.val, 1))
    IN Checked(CheckPermissionLocked(S, segs, addr, maxlen, FALSE, TRUE))

\* CopyInString(addr, maxlen): (str, err), err "" for Ok(()), "panic" for
\* the expect() on a failed CopyInVec
CopyInString(S, segs, addr, maxlen) ==
    LET Str(s, e, S2) == [str |-> s, err |-> e, S |-> S2]
        Read(chk, in) ==
            IF ~in.ok THEN Str(<<>>, "panic", in.S)
            ELSE IF FirstNul(in.data) # 0
            THEN Str(SubSeq(in.data, 1, FirstNul(in.data) - 1), "", in.S)
            ELSE Str(SubSeq(in.data, 1, chk.val), "ENAMETOOLONG", in.S)
        Checked(chk) ==
            IF ~chk.ok THEN Str(<<>>, chk.err, chk.S)
            ELSE Read(chk, CopyInVec(chk.S, segs, addr, chk.val, 1))
    IN Checked(CheckPermissionLocked(S, segs, addr, maxlen, FALSE, TRUE))

\* the Vec<u64> behind count * PTR_SIZE bytes, least significant byte first
Pointers(data, count) ==
    LET RECURSIVE Value(_, _)
        Value(k, j) == IF j = PTR_SIZE THEN 0
                       ELSE data[(k - 1) * PTR_SIZE + j + 1] + 256 * Value(k, j + 1)
    IN [k \in 1 .. count |-> Value(k, 0)]

Vec(ok, err, v, S) == [ok |-> ok, err |-> err, v |-> v, S |-> S]

RECURSIVE CopyInVectorLoop(_, _, _, _, _, _, _)
\* the for loop of CopyInVector at index i (addresses[i - 1] of the source)
CopyInVectorLoop(S, segs, addresses, i, v, maxElemSize, maxTotalSize) ==
    IF i > Len(addresses) THEN Vec(TRUE, "", v, S)
    ELSE IF addresses[i] = 0 THEN Vec(TRUE, "", v, S)
    ELSE IF maxTotalSize <= 0 THEN Vec(FALSE, "ENOMEM", <<>>, S)
    ELSE LET thisMax == IF maxTotalSize < maxElemSize THEN maxTotalSize
                        ELSE maxElemSize
             Copied(r) ==
                 IF r.err # "" THEN Vec(FALSE, r.err, <<>>, r.S)
                 ELSE CopyInVectorLoop(r.S, segs, addresses, i + 1, Append(v, r.str),
                                       maxElemSize, maxTotalSize - (Len(r.str) + 1))
         IN Copied(CopyInString(S, segs, addresses[i], thisMax))

\* CopyInVector(addr, maxElemSize, maxTotalSize)
CopyInVector(S, segs, addr, maxElemSize, maxTotalSize) ==
    LET Read(fix, in) ==
            IF ~in.ok THEN Vec(FALSE, in.err, <<>>, in.S)
            ELSE CopyInVectorLoop(in.S, segs,
                                  Pointers(in.data, fix.val \div PTR_SIZE),
                                  1, <<>>, maxElemSize, maxTotalSize)
        Fixed(fix) ==
            IF ~fix.ok THEN Vec(FALSE, fix.err, <<>>, fix.S)
            ELSE Read(fix, CopyInVec(fix.S, segs, addr, fix.val \div PTR_SIZE, PTR_SIZE))
    IN IF addr = 0 THEN Vec(TRUE, "", <<>>, S)
       ELSE Fixed(FixPermission(S, segs, addr, maxElemSize * PTR_SIZE, FALSE, TRUE))

\* what a task of the MM with table t reads at page p (NoFrame: not resident)
ReadPage(t, m, p) == IF t[p].frame = NoFrame THEN <<>> ELSE m[t[p].frame]

\* ------------------------------------------------------------- Mappable
MapRef(mm, vp, fp) == [mm |-> mm, vp |-> vp, fp |-> fp]
RangeRefs(mm, s, e, offset) == {MapRef(mm, p, offset + (p - s)) : p \in s .. (e - 1)}
\* AddMapping(mm, range, offset, writable)
AddMapping(refs, mm, s, e, offset) == refs (+) SetToBag(RangeRefs(mm, s, e, offset))
\* RemoveMapping(mm, range, offset, writable); removing what was never added
\* is a structural violation
CanRemoveMapping(refs, mm, s, e, offset) ==
    \A x \in RangeRefs(mm, s, e, offset) : BagIn(x, refs)
RemoveMapping(refs, mm, s, e, offset) == refs (-) SetToBag(RangeRefs(mm, s, e, offset))
RefsOf(refs, mm) == {x \in BagToSet(refs) : x.mm = mm}

\* ------------------------------------------------------------------ RSS
AddRssLock(cur, max, len) ==
    LET c == U64Add(cur, len)
    IN [cur |-> c, max |-> IF c > max THEN c ELSE max]
RemoveRssLock(cur, len) == U64Sub(cur, len)

\* ------------------------------------------------------ RemoveVMAsLocked
\* M = [vmas, usageAS, curRSS, pt, ref, maprefs, fatal]
RECURSIVE RemoveLoop(_, _, _, _, _)
RemoveLoop(M, mm, i, s, e) ==
    IF ~(i # 0 /\ i <= Len(M.vmas) /\ M.vmas[i].start < e) THEN M
    ELSE LET Isolated(iso) ==
               LET seg == iso.segs[iso.idx]
                   len == (seg.end - seg.start) * PAGE_SIZE
                   hasMap == seg.vma.mappable # 0
                   bad == hasMap /\ ~CanRemoveMapping(M.maprefs, mm, seg.start, seg.end,
                                                       seg.vma.offset)
                   Unmapped(un) ==
                       RemoveLoop(
                          [vmas |-> RemoveSeg(iso.segs, iso.idx),
                           usageAS |-> U64Sub(M.usageAS, len),
                           curRSS |-> RemoveRssLock(M.curRSS, len),
                           pt |-> un.pt, ref |-> un.ref,
                           maprefs |-> IF hasMap
                                       THEN RemoveMapping(M.maprefs, mm, seg.start,
                                                          seg.end, seg.vma.offset)
                                       ELSE M.maprefs,
                           fatal |-> FALSE],
                          mm, iso.idx, s, e)
               IN IF bad THEN [M EXCEPT !.vmas = iso.segs, !.fatal = TRUE]
                  ELSE Unmapped(MUnmap(M.pt, M.ref, seg.start, seg.end))
         IN Isolated(Isolate(M.vmas, i, s, e))

\* a RemoveVMAsLocked that isolates and removes one page more than asked
RemoveVMAsLocked_Wider(M, mm, s, e) ==
    RemoveLoop(M, mm, FirstSegFrom(M.vmas, s), s, e + 1)

RemoveVMAsLocked(M, mm, s, e) == RemoveLoop(M, mm, FirstSegFrom(M.vmas, s), s, e)

\* ---------------------------------------------------------------- Clear
RECURSIVE ClearLoop(_, _, _)
ClearLoop(M, mm, i) ==
    IF ~(i <= Len(M.vmas)) THEN M
    ELSE LET seg == M.vmas[i]
             hasMap == seg.vma.mappable # 0
             bad == hasMap /\ ~CanRemoveMapping(M.maprefs, mm, seg.start, seg.end,
                                                 seg.vma.offset)
             Unmapped(un) ==
                 ClearLoop(
                    [M EXCEPT !.vmas = RemoveSeg(M.vmas, i),
                              !.pt = un.pt, !.ref = un.ref,
                              !.maprefs = IF hasMap
                                          THEN RemoveMapping(M.maprefs, mm, seg.start,
                                                             seg.end, seg.vma.offset)
                                          ELSE M.maprefs],
                    mm, i)
         IN IF seg.vma.kernel THEN ClearLoop(M, mm, i + 1)
            ELSE IF bad THEN [M EXCEPT !.fatal = TRUE]
            ELSE Unmapped(MUnmap(M.pt, M.ref, seg.start, seg.end))

\* a Clear that removes the VMAs and leaves the page table as it was
Clear_NoUnmap(M, mm) ==
    LET Kept(c) == [c EXCEPT !.pt = M.pt, !.ref = M.ref]
    IN Kept(ClearLoop(M, mm, 1))

Clear(M, mm) == ClearLoop(M, mm, 1)

\* ---------------------------------------------------------- PopulateVMA
\* segments shorter than this are pre-committed (0x200000 bytes, scaled)
PRECOMMIT_LIMIT == 2 * PAGE_SIZE

RECURSIVE MapRangeTo(_, _, _, _, _, _)
\* MapHost / MapFile: map pages [p, e) to the frames frameOf(p) with flag w
MapRangeTo(t, r, p, e, first, w) ==
    IF p >= e THEN [pt |-> t, ref |-> r]
    ELSE LET m == MapPage(t, r, p, first, w)
         IN MapRangeTo(m.pt, m.ref, p + 1, e, first + 1, w)

\* PopulateVMA(task, vmaSeg, ar = [s, e), precommit, vdso)
\* P = [pt, ref, cur, max]
PopulateVMA(P, seg, s, e, precommit, vdso) ==
    LET vma == seg.vma
        permsWrite == IF vma.private /\ vma.mappable # 0 THEN FALSE ELSE vma.write
        len == (e - s) * PAGE_SIZE
        rss == AddRssLock(P.cur, P.max, len)
    IN IF vma.mappable = 0
       THEN IF ~vdso
            THEN [P EXCEPT !.cur = rss.cur, !.max = rss.max]
            ELSE LET m == MapRangeTo(P.pt, P.ref, s, e, VdsoFrame(vma.offset), permsWrite)
                 IN [P EXCEPT !.pt = m.pt, !.ref = m.ref]
       ELSE LET m == IF precommit /\ (seg.end - seg.start) * PAGE_SIZE < PRECOMMIT_LIMIT
                     THEN MapRangeTo(P.pt, P.ref, s, e,
                                     FileFrame(vma.offset + s - seg.start), permsWrite)
                     ELSE [pt |-> P.pt, ref |-> P.ref]
            IN [pt |-> m.pt, ref |-> m.ref, cur |-> rss.cur, max |-> rss.max]

\* ----------------------------------------------------------------- Fork
\* ApplicationAddrRange(): [layout.MinAddr, layout.MaxAddr)
AppStart == 1
AppEnd == NUserPages + 1

\* a Fork whose destination gap is never advanced
ForkInsert_FirstGap(segs, seg) == InsertSeg(segs, 0, seg)
\* a Fork that inserts the VMA inside the copy-on-write branch only
ForkInsert_PrivateOnly(segs, seg) ==
    IF seg.vma.private THEN InsertSeg(segs, Len(segs), seg) ELSE segs
\* dstvgap = vmas.Insert(&dstvgap, &vmaAR, vma).NextGap(): the child's VMAs
\* are inserted one after the other, each in the gap after the last
ForkInsert(segs, seg) == InsertSeg(segs, Len(segs), seg)

NoFail == [at |-> "none", k |-> 0]
FailAt(at, k) == [at |-> at, k |-> k]

\* F = [src, dst, ref, vmas, maprefs, usageAS, curRSS, failed, fatal]: the two
\* tables, the allocator, and the child's fields while the loop runs
RECURSIVE ForkLoop(_, _, _, _, _)
ForkLoop(F, segs, k, child, fail) ==
    IF ~(k <= Len(segs)) THEN F
    ELSE
      LET seg == segs[k]
          hasMap == seg.vma.mappable # 0
          \* the Err(e) arm of AddMapping: RemoveVMAsLocked on the child left u
          Unwound(u) ==
              [F EXCEPT !.vmas = u.vmas, !.usageAS = u.usageAS,
                        !.curRSS = u.curRSS, !.dst = u.pt,
                        !.ref = u.ref, !.maprefs = u.maprefs,
                        !.failed = TRUE, !.fatal = u.fatal]
          F1 == IF hasMap
                THEN [F EXCEPT !.maprefs = AddMapping(F.maprefs, child, seg.start, seg.end,
                                                      seg.vma.offset)]
                ELSE F
          \* ForkRange / CopyRange left rc: the VMA is inserted and the loop goes on
          Ranged(rc) ==
              ForkLoop([F1 EXCEPT !.src = rc.src, !.dst = rc.dst, !.ref = rc.ref,
                                  !.vmas = ForkInsert(F1.vmas, seg)],
                       segs, k + 1, child, fail)
      IN IF hasMap /\ fail = FailAt("map", k)
         THEN Unwound(RemoveVMAsLocked(
                        [vmas |-> F.vmas, usageAS |-> F.usageAS, curRSS |-> F.curRSS,
                         pt |-> F.dst, ref |-> F.ref, maprefs |-> F.maprefs,
                         fatal |-> FALSE],
                        child, AppStart, AppEnd))
         ELSE IF ~seg.vma.kernel /\ fail = FailAt("range", k)
         THEN [F1 EXCEPT !.failed = TRUE]
         ELSE IF seg.vma.kernel
         THEN ForkLoop([F1 EXCEPT !.vmas = ForkInsert(F1.vmas, seg)],
                       segs, k + 1, child, fail)
         ELSE IF seg.vma.private
         THEN Ranged(ForkRange(F1.src, F1.dst, F1.ref, seg.start, seg.end))
         ELSE Ranged(CopyRange(F1.src, F1.dst, F1.ref, seg.start, seg.end))

\* MemoryManager::Fork of the MM with fields (segs, usage, cur, t) and
\* allocator r into the child id `child`; fail names the step that errs
Fork(segs, usage, cur, t, r, refs, child, fail) ==
    LET f == PtFork(t, r)
        F0 == [src |-> f.src, dst |-> f.dst, ref |-> f.ref, vmas |-> <<>>,
               maprefs |-> refs, usageAS |-> usage, curRSS |-> cur,
               failed |-> FALSE, fatal |-> FALSE]
    IN IF fail = FailAt("pt", 0)
       THEN [src |-> t, dst |-> [p \in Pages |-> NoLeaf], ref |-> r, vmas |-> <<>>,
             maprefs |-> refs, usageAS |-> usage, curRSS |-> cur,
             failed |-> TRUE, fatal |-> FALSE]
       ELSE ForkLoop(F0, segs, 1, child, fail)

\* Drop for MemoryManager followed by the release of its page table:
\* Clear runs when the MM was initialised, then every leaf left is freed
\* M = [vmas, usageAS, curRSS, pt, ref, maprefs, fatal]
DropMM(M, mm, wasInited) ==
    LET Released(c, un) == [c EXCEPT !.pt = [p \in Pages |-> NoLeaf], !.ref = un.ref]
        Cleared(c) == Released(c, MUnmap(c.pt, c.ref, 0, KernelPage))
    IN Cleared(IF wasInited THEN Clear(M, mm) ELSE M)

\* ============================================================== the system
\* the record of the last call: the operation, the MM it ran on, the child a
\* Fork made, its result (ok, err, val), n, the number of objects of the
\* state before the call that the call was about (see each action), arg,
\* the arguments of a call of the user-memory layer, out, the list
\* (iovecs, bytes) such a call hands back, and strs, the Vec<String> of
\* CopyInVector
Last(op, mm, child, ok, err, val, n) ==
    [op |-> op, mm |-> mm, child |-> child, ok |-> ok, err |-> err,
     val |-> val, n |-> n, arg |-> <<>>, out |-> <<>>, strs |-> <<>>]

\* the threads that run on the root MM, and a thread that is in no call
Threads == 1 .. 2
Idle == [op |-> "", pc |-> "idle", phase |-> 0, iovs |-> <<>>, val |-> <<>>]

\* the values a thread holds: none, a MemoryManager (a strong handle on the
\* Arc of MM mm) or a MemoryManagerWeak
NoHandle == [mm |-> 0, kind |-> "none"]
Strong(mm) == [mm |-> mm, kind |-> "strong"]
Weak(mm) == [mm |-> mm, kind |-> "weak"]
\* an MM made by op ("Empty", "Init", "Fork") with the uid NewUID() gave it,
\* parent the uid of the MM Fork was called on
Made(op, uid, parent) == [op |-> op, uid |-> uid, parent |-> parent]

\* a NewUID that loads the counter and leaves it as it is
NewUID_Load(uid) == [ret |-> uid, next |-> uid]

\* NewUID(): UID.fetch_add(1, SeqCst), one atomic step: the value before the
\* addition is returned
NewUID(uid) == [ret |-> uid, next |-> uid + 1]

\* what MemoryManagerInternal::default() leaves in a slot
EmptyPt == [p \in Pages |-> NoLeaf]

\* a thread outside CreateProcess
NoProc == [pc |-> "idle", tg |-> 0, isNone |-> FALSE]
\* Kernel::Init: extMu free, globalInit None
KernelInit ==
    /\ extMu = 0
    /\ globalInit = 0
    /\ created = 0
    /\ proc = [t \in Threads |-> NoProc]

\* the root MM made by MemoryManager::Init(), every other id unused
InitMM ==
    /\ inited = [m \in MMIds |-> m = 1]
    /\ alive = [m \in MMIds |-> m = 1]
    /\ vmas = [m \in MMIds |-> IF m = 1 THEN <<Seg(KernelPage, KernelPage + 1, KernelVMA)>>
                                ELSE <<>>]
    /\ domain = [m \in MMIds |-> IF m = 1 THEN <<0, FULL_TOP>> ELSE <<0, LOWER_TOP>>]
    /\ usageAS = [m \in MMIds |-> 0]
    /\ curRSS = [m \in MMIds |-> 0]
    /\ maxRSS = [m \in MMIds |-> 0]
    /\ pt = [m \in MMIds |-> IF m = 1 THEN KernelPt ELSE EmptyPt]
    /\ refcnt = [f \in Frames |-> 0]
    /\ mem = [f \in Frames |-> [b \in 0 .. (PAGE_SIZE - 1) |->
                                   IF f \in FileFrames THEN 1 ELSE 0]]
    /\ maprefs = EmptyBag
    /\ UID = 2
    /\ writes = 0
    /\ maps = 0
    /\ task = [t \in Threads |-> Idle]
    /\ mapping = 0
    /\ lock = 0
    /\ handle = [t \in Threads |-> IF t = 1 THEN Strong(1) ELSE NoHandle]
    /\ dropClears = [m \in MMIds |-> 0]
    /\ cr3 = [t \in Threads |-> 0]
    /\ uids = <<Made("Init", 1, 0)>>
    /\ KernelInit

Init ==
    /\ InitMM
    /\ last = Last("Init", 1, 0, TRUE, "", 0, 0)

Live(m) == alive[m] /\ inited[m]

\* the other live MMs whose table maps, at page p, the frame m maps there
Sharers(m, p) ==
    {o \in MMIds \ {m} : /\ Live(o)
                         /\ pt[m][p].frame # NoFrame
                         /\ pt[o][p].frame = pt[m][p].frame}
\* the resident pages of m among [s, e) that lie in a VMA which is not a kernel VMA
Resident(m, s, e) ==
    {p \in s .. (e - 1) : /\ pt[m][p].frame # NoFrame
                          /\ FindSeg(vmas[m], p) # 0
                          /\ ~vmas[m][FindSeg(vmas[m], p)].vma.kernel}
\* the user pages m maps writable
WritableLeaves(m) == {p \in UserPages : pt[m][p].frame # NoFrame /\ pt[m][p].w}

\* the mappings a task may ask for
Kinds == {"anon_private", "anon_shared", "file_private", "file_shared", "vdso"}
KindVMA(kind) ==
    CASE kind = "anon_private" -> VMA(0, 0, TRUE, TRUE, FALSE)
      [] kind = "anon_shared" -> VMA(0, 0, FALSE, TRUE, FALSE)
      [] kind = "file_private" -> VMA(1, 0, TRUE, TRUE, FALSE)
      [] kind = "file_shared" -> VMA(1, 0, FALSE, TRUE, FALSE)
      [] kind = "vdso" -> VMA(0, 0, TRUE, FALSE, FALSE)
      [] kind = "anon_private_ro" -> VMA(0, 0, TRUE, FALSE, FALSE)
      [] kind = "anon_shared_ro" -> VMA(0, 0, FALSE, FALSE, FALSE)
      [] kind = "file_private_ro" -> VMA(1, 0, TRUE, FALSE, FALSE)
      [] kind = "file_shared_ro" -> VMA(1, 0, FALSE, FALSE, FALSE)

\* mmap: a new VMA in a gap of the application range, accounted in usageAS
\* and registered with its mappable, then PopulateVMA on the whole of it
MMap(m, kind, s, e, precommit) ==
    /\ Live(m)
    /\ maps < MaxMaps
    /\ AppStart <= s /\ s < e /\ e <= AppEnd
    /\ \A p \in s .. (e - 1) : FindSeg(vmas[m], p) = 0
    /\ kind \in {"file_private", "file_shared"} \/ ~precommit
    /\ \E seg \in {Seg(s, e, KindVMA(kind))} :
       \E P \in {PopulateVMA([pt |-> pt[m], ref |-> refcnt, cur |-> curRSS[m],
                              max |-> maxRSS[m]], seg, s, e, precommit, kind = "vdso")} :
          /\ vmas' = [vmas EXCEPT ![m] = InsertSeg(@, FindGap(@, s), seg)]
          /\ usageAS' = [usageAS EXCEPT ![m] = U64Add(@, (e - s) * PAGE_SIZE)]
          /\ maprefs' = IF seg.vma.mappable # 0
                        THEN AddMapping(maprefs, m, s, e, seg.vma.offset)
                        ELSE maprefs
          /\ pt' = [pt EXCEPT ![m] = P.pt]
          /\ refcnt' = P.ref
          /\ curRSS' = [curRSS EXCEPT ![m] = P.cur]
          /\ maxRSS' = [maxRSS EXCEPT ![m] = P.max]
    /\ last' = Last("MMap", m, 0, TRUE, "", 0, 0)
    /\ maps' = maps + 1
    /\ UNCHANGED <<inited, alive, domain, mem, UID, writes>>
    /\ UNCHANGED <<task, mapping, lock>>
    /\ UNCHANGED <<handle, dropClears, cr3, uids>>
    /\ UNCHANGED kvars

\* the fault entry: InstallPageWithAddr(task, pageAddr)
Fault(m, p) ==
    /\ Live(m)
    /\ p \in UserPages
    /\ \E r \in {InstallPageWithAddr(St(pt[m], refcnt, mem, FALSE), vmas[m], p)} :
          /\ ~r.S.oom
          /\ pt' = [pt EXCEPT ![m] = r.S.pt]
          /\ refcnt' = r.S.ref
          /\ last' = Last("InstallPageWithAddr", m, 0, r.ok,
                          IF r.ok THEN "" ELSE "EFAULT", 0, 0)
    /\ UNCHANGED <<inited, alive, vmas, domain, usageAS, curRSS, maxRSS, mem,
                   maprefs, UID, writes, maps>>
    /\ UNCHANGED <<task, mapping, lock>>
    /\ UNCHANGED <<handle, dropClears, cr3, uids>>
    /\ UNCHANGED kvars

\* FixPermission(task, vAddr, len, writeReq, allowPartial)
FixPerm(m, vAddr, len, writeReq, allowPartial) ==
    /\ Live(m)
    /\ \E r \in {FixPermission(St(pt[m], refcnt, mem, FALSE), vmas[m], vAddr, len,
                              writeReq, allowPartial)} :
          /\ ~r.S.oom
          /\ pt' = [pt EXCEPT ![m] = r.S.pt]
          /\ refcnt' = r.S.ref
          /\ mem' = r.S.mem
          /\ last' = [Last(IF writeReq THEN "FixPermissionW" ELSE "FixPermissionR",
                           m, 0, r.ok, r.err, r.val,
                           Cardinality(Sharers(m, PageOf(vAddr))))
                         EXCEPT !.arg = [vAddr |-> vAddr, len |-> len,
                                         allowPartial |-> allowPartial]]
    /\ UNCHANGED <<inited, alive, vmas, domain, usageAS, curRSS, maxRSS,
                   maprefs, UID, writes, maps>>
    /\ UNCHANGED <<task, mapping, lock>>
    /\ UNCHANGED <<handle, dropClears, cr3, uids>>
    /\ UNCHANGED kvars

\* CopyDataOut(task, from, vaddr, len): src are the bytes at `from`
CopyDataOut(m, src, vaddr) ==
    /\ Live(m)
    /\ writes < MaxWrites
    /\ \E r \in {CopyDataOutLocked(St(pt[m], refcnt, mem, FALSE), vmas[m], src, vaddr)} :
          /\ ~r.S.oom
          /\ pt' = [pt EXCEPT ![m] = r.S.pt]
          /\ refcnt' = r.S.ref
          /\ mem' = r.S.mem
          /\ last' = Last("CopyDataOut", m, 0, r.ok, r.err, 0,
                          Cardinality(Sharers(m, PageOf(vaddr))))
    /\ writes' = writes + 1
    /\ UNCHANGED <<inited, alive, vmas, domain, usageAS, curRSS, maxRSS,
                   maprefs, UID, maps>>
    /\ UNCHANGED <<task, mapping, lock>>
    /\ UNCHANGED <<handle, dropClears, cr3, uids>>
    /\ UNCHANGED kvars

\* munmap: RemoveVMAsLocked(mm, [s, e))
Munmap(m, s, e) ==
    /\ Live(m)
    /\ AppStart <= s /\ s < e /\ e <= AppEnd
    /\ \E M \in {RemoveVMAsLocked(
                   [vmas |-> vmas[m], usageAS |-> usageAS[m], curRSS |-> curRSS[m],
                    pt |-> pt[m], ref |-> refcnt, maprefs |-> maprefs, fatal |-> FALSE],
                   m, s, e)} :
          /\ vmas' = [vmas EXCEPT ![m] = M.vmas]
          /\ usageAS' = [usageAS EXCEPT ![m] = M.usageAS]
          /\ curRSS' = [curRSS EXCEPT ![m] = M.curRSS]
          /\ pt' = [pt EXCEPT ![m] = M.pt]
          /\ refcnt' = M.ref
          /\ maprefs' = M.maprefs
          /\ last' = Last("RemoveVMAsLocked", m, 0, ~M.fatal,
                          IF M.fatal THEN "FATAL" ELSE "", 0,
                          Cardinality(Resident(m, s, e)))
    /\ UNCHANGED <<inited, alive, domain, maxRSS, mem, UID, writes, maps>>
    /\ UNCHANGED <<task, mapping, lock>>
    /\ UNCHANGED <<handle, dropClears, cr3, uids>>
    /\ UNCHANGED kvars

\* execve: Clear() on a live MM
Exec(m) ==
    /\ Live(m)
    /\ \E M \in {Clear([vmas |-> vmas[m], usageAS |-> usageAS[m], curRSS |-> curRSS[m],
                        pt |-> pt[m], ref |-> refcnt, maprefs |-> maprefs,
                        fatal |-> FALSE], m)} :
          /\ vmas' = [vmas EXCEPT ![m] = M.vmas]
          /\ pt' = [pt EXCEPT ![m] = M.pt]
          /\ refcnt' = M.ref
          /\ maprefs' = M.maprefs
          /\ last' = Last("Clear", m, 0, ~M.fatal, IF M.fatal THEN "FATAL" ELSE "", 0,
                          Cardinality(Resident(m, 0, FULL_TOP)))
    /\ UNCHANGED <<inited, alive, domain, usageAS, curRSS, maxRSS, mem, UID, writes, maps>>
    /\ UNCHANGED <<task, mapping, lock>>
    /\ UNCHANGED <<handle, dropClears, cr3, uids>>
    /\ UNCHANGED kvars

\* fork(2): MemoryManager::Fork; the child takes the next UID.  When a step
\* fails the child handle is dropped before Fork returns.
DoFork(m, fail) ==
    /\ Live(m)
    /\ UID <= MaxMM
    /\ \/ fail = NoFail
       \/ fail = FailAt("pt", 0)
       \/ /\ fail.at = "map" /\ fail.k \in 1 .. Len(vmas[m])
          /\ vmas[m][fail.k].vma.mappable # 0
       \/ /\ fail.at = "range" /\ fail.k \in 1 .. Len(vmas[m])
          /\ ~vmas[m][fail.k].vma.kernel
    /\ \E c \in {NewUID(UID).ret} :
       \E F \in {Fork(vmas[m], usageAS[m], curRSS[m], pt[m], refcnt, maprefs, c, fail)} :
       \E D \in {IF F.failed
                 THEN DropMM([vmas |-> F.vmas, usageAS |-> F.usageAS,
                              curRSS |-> F.curRSS, pt |-> F.dst, ref |-> F.ref,
                              maprefs |-> F.maprefs, fatal |-> F.fatal], c, TRUE)
                 ELSE [ref |-> F.ref, maprefs |-> F.maprefs]} :
          IF ~F.failed
          THEN /\ inited' = [inited EXCEPT ![c] = TRUE]
               /\ alive' = [alive EXCEPT ![c] = TRUE]
               /\ vmas' = [vmas EXCEPT ![c] = F.vmas]
               /\ domain' = [domain EXCEPT ![c] = domain[m]]
               /\ usageAS' = [usageAS EXCEPT ![c] = F.usageAS]
               /\ curRSS' = [curRSS EXCEPT ![c] = F.curRSS]
               /\ maxRSS' = [maxRSS EXCEPT ![c] = maxRSS[m]]
               /\ pt' = [pt EXCEPT ![m] = F.src, ![c] = F.dst]
               /\ refcnt' = F.ref
               /\ maprefs' = F.maprefs
               /\ last' = Last("Fork", m, c, TRUE, "", 0,
                               Cardinality(WritableLeaves(m)))
               /\ UNCHANGED dropClears
          ELSE /\ pt' = [pt EXCEPT ![m] = F.src]
               /\ refcnt' = D.ref
               /\ maprefs' = D.maprefs
               /\ last' = Last("Fork", m, c, FALSE, fail.at, 0,
                               Cardinality(WritableLeaves(m)))
               /\ dropClears' = [dropClears EXCEPT ![c] = @ + 1]
               /\ UNCHANGED <<inited, alive, vmas, domain, usageAS, curRSS, maxRSS>>
    /\ UID' = NewUID(UID).next
    /\ uids' = Append(uids, Made("Fork", NewUID(UID).ret, m))
    /\ UNCHANGED <<mem, writes, maps>>
    /\ UNCHANGED <<task, mapping, lock>>
    /\ UNCHANGED <<handle, cr3>>
    /\ UNCHANGED kvars

\* the last handle of a forked MM goes away (the task exits)
Exit(m) ==
    /\ Live(m)
    /\ m # 1
    /\ \E D \in {DropMM([vmas |-> vmas[m], usageAS |-> usageAS[m], curRSS |-> curRSS[m],
                         pt |-> pt[m], ref |-> refcnt, maprefs |-> maprefs,
                         fatal |-> FALSE], m, inited[m])} :
          /\ vmas' = [vmas EXCEPT ![m] = D.vmas]
          /\ pt' = [pt EXCEPT ![m] = D.pt]
          /\ refcnt' = D.ref
          /\ maprefs' = D.maprefs
          /\ last' = Last("Drop", m, 0, ~D.fatal, IF D.fatal THEN "FATAL" ELSE "", 0,
                          Cardinality(Resident(m, 0, FULL_TOP)))
    /\ alive' = [alive EXCEPT ![m] = FALSE]
    /\ dropClears' = [dropClears EXCEPT ![m] = IF inited[m] THEN @ + 1 ELSE @]
    /\ UNCHANGED <<inited, domain, usageAS, curRSS, maxRSS, mem, UID, writes, maps>>
    /\ UNCHANGED <<task, mapping, lock>>
    /\ UNCHANGED <<handle, cr3, uids>>
    /\ UNCHANGED kvars

PageStarts == {p * PAGE_SIZE : p \in UserPages}
\* the bytes a CopyDataOut writes: one byte no frame holds at the start
WriteData == <<2>>
FailPoints ==
    {NoFail, FailAt("pt", 0)}
        \cup {FailAt(at, k) : at \in {"map", "range"}, k \in 1 .. (NUserPages + 1)}

Next ==
    \/ \E m \in MMIds, kind \in Kinds, s \in UserPages, e \in 2 .. AppEnd :
          MMap(m, kind, s, e, FALSE)
    \/ \E m \in MMIds, p \in UserPages : Fault(m, p)
    \/ \E m \in MMIds, a \in PageStarts : FixPerm(m, a, 1, TRUE, FALSE)
    \/ \E m \in MMIds, s \in UserPages, e \in 2 .. AppEnd : Munmap(m, s, e)
    \/ \E m \in MMIds : Exec(m)
    \/ \E m \in MMIds, fail \in FailPoints : DoFork(m, fail)

\* the copy-on-write system: one page, faults, write faults and transfers
CowKinds == {"anon_private", "anon_shared", "file_private", "file_shared"}
NextCow ==
    \/ \E m \in MMIds, kind \in CowKinds, pc \in BOOLEAN : MMap(m, kind, 1, 2, pc)
    \/ \E m \in MMIds : Fault(m, 1)
    \/ \E m \in MMIds : FixPerm(m, PAGE_SIZE, 1, TRUE, FALSE)
    \/ \E m \in MMIds : CopyDataOut(m, WriteData, PAGE_SIZE)
    \/ \E m \in MMIds : Munmap(m, 1, 2)
    \/ \E m \in MMIds : Exec(m)
    \/ \E m \in MMIds : DoFork(m, NoFail)
    \/ \E m \in MMIds : Exit(m)

SpecCow == Init /\ [][NextCow]_vars

\* the fault system: one page in a VMA of every combination of anonymous or
\* file-backed, private or shared, writable or not
InstKinds ==
    CowKinds \cup {"anon_private_ro", "anon_shared_ro", "file_private_ro",
                   "file_shared_ro"}
NextInst ==
    \/ \E m \in MMIds, kind \in InstKinds \cup {"vdso"}, pc \in BOOLEAN :
          MMap(m, kind, AppStart, AppStart + 1, pc)
    \/ \E m \in MMIds : Fault(m, AppStart)
    \/ \E m \in MMIds, w \in BOOLEAN : FixPerm(m, AppStart * PAGE_SIZE, 1, w, FALSE)
    \/ \E m \in MMIds : CopyDataOut(m, WriteData, AppStart * PAGE_SIZE)
    \/ \E m \in MMIds : Munmap(m, AppStart, AppStart + 1)
    \/ \E m \in MMIds : Exec(m)
    \/ \E m \in MMIds : DoFork(m, NoFail)

SpecInst == Init /\ [][NextInst]_vars

Spec == Init /\ [][Next]_vars

\* ================================================================ properties
\* the VMA of m that contains page p (a kernel VMA when there is none, so
\* that a page outside every VMA counts as neither private user memory nor
\* file-backed)
VmaAt(m, p) ==
    IF FindSeg(vmas[m], p) = 0 THEN KernelVMA ELSE vmas[m][FindSeg(vmas[m], p)].vma
InUserVma(m, p) == FindSeg(vmas[m], p) # 0 /\ ~VmaAt(m, p).kernel

\* C1: when a write fault of MM m on page p resolves (FixPermission with
\* writeReq returns the whole length) and the page was not writable before,
\* the page is writable in m afterwards, and in every other live MM that
\* mapped the same frame before the call the page is either still read-only
\* or mapped to another frame than m's; what that MM reads at p is unchanged.
C1_CowIsolation ==
    [][\A m \in MMIds, p \in UserPages :
          ( /\ FixPerm(m, p * PAGE_SIZE, 1, TRUE, FALSE)
            /\ last'.ok /\ last'.val = 1
            /\ ~pt[m][p].w )
          => /\ pt'[m][p].frame # NoFrame
             /\ pt'[m][p].w
             /\ \A o \in Sharers(m, p) :
                   /\ ~pt'[o][p].w \/ pt'[o][p].frame # pt'[m][p].frame
                   /\ ReadPage(pt'[o], mem', p) = ReadPage(pt[o], mem, p)]_vars

\* a write fault on a frame another MM shared has just resolved by a copy:
\* the faulting MM maps its own writable frame, the other MM still maps the
\* frame it had, read-only
C1_Witness ==
    /\ last.op = "FixPermissionW" /\ last.ok /\ last.val = 1 /\ last.n >= 1
    /\ \E o \in MMIds \ {last.mm}, p \in UserPages :
          /\ Live(o)
          /\ pt[last.mm][p].w
          /\ pt[o][p].frame # NoFrame /\ ~pt[o][p].w
          /\ pt[o][p].frame # pt[last.mm][p].frame

\* C2: a CopyDataOut by MM m on a page of a private VMA never changes what
\* another live MM that shares the page's frame reads at that page.
C2_WriteHonoursCow ==
    [][\A m \in MMIds, p \in UserPages :
          ( /\ CopyDataOut(m, WriteData, p * PAGE_SIZE)
            /\ last'.ok
            /\ InUserVma(m, p) /\ VmaAt(m, p).private )
          => \A o \in Sharers(m, p) :
                (InUserVma(o, p) /\ VmaAt(o, p).private)
                   => ReadPage(pt'[o], mem', p) = ReadPage(pt[o], mem, p)]_vars

\* C3: a page that is writable in the table of a live MM and lies in a
\* private VMA maps a frame with reference count 1 that no other live MM
\* maps at any page.
C3_PrivateWritableUnshared ==
    \A m \in MMIds, p \in UserPages :
       ( /\ Live(m)
         /\ pt[m][p].frame # NoFrame /\ pt[m][p].w
         /\ InUserVma(m, p) /\ VmaAt(m, p).private )
       => /\ refcnt[pt[m][p].frame] = 1
          /\ pt[m][p].frame \in AnonFrames
          /\ \A o \in MMIds \ {m}, q \in UserPages :
                Live(o) => pt[o][q].frame # pt[m][p].frame

\* a private file mapping after its copy-on-write: one MM writes to its own
\* anonymous copy while another still maps the file's frame read-only
C3_Witness ==
    \E m \in MMIds, o \in MMIds, p \in UserPages :
       /\ m # o /\ Live(m) /\ Live(o)
       /\ InUserVma(m, p) /\ VmaAt(m, p).private /\ VmaAt(m, p).mappable # 0
       /\ pt[m][p].w /\ pt[m][p].frame \in AnonFrames
       /\ pt[o][p].frame \in FileFrames /\ ~pt[o][p].w

\* C4: the VMAs of every MM are non-empty half-open intervals in ascending
\* order, pairwise disjoint, all inside the domain of the MM's set.
C4_VmasSortedDisjoint ==
    \A m \in MMIds :
       /\ \A i \in 1 .. Len(vmas[m]) :
             /\ vmas[m][i].start < vmas[m][i].end
             /\ domain[m][1] <= vmas[m][i].start
             /\ vmas[m][i].end <= domain[m][2]
       /\ \A i \in 1 .. Len(vmas[m]), j \in 1 .. Len(vmas[m]) :
             i < j => vmas[m][i].end <= vmas[m][j].start

\* a forked MM that holds two VMAs after a RemoveVMAsLocked cut a page off
\* the front of its user VMA
C4_Witness ==
    /\ last.op = "RemoveVMAsLocked" /\ last.ok
    /\ last.mm # 1 /\ Live(last.mm)
    /\ Len(vmas[last.mm]) = 2
    /\ vmas[last.mm][1].start = 2
    /\ ~vmas[last.mm][1].vma.kernel

RECURSIVE SpanOf(_)
\* vmas.Span() over the VMAs that are not kernel VMAs, in bytes
SpanOf(segs) ==
    IF segs = <<>> THEN 0
    ELSE (IF Head(segs).vma.kernel THEN 0
          ELSE (Head(segs).end - Head(segs).start) * PAGE_SIZE) + SpanOf(Tail(segs))

\* C5: usageAS of every live MM is the sum of the lengths of its VMAs that
\* are not kernel VMAs.
C5_UsageIsSpan ==
    \A m \in MMIds : Live(m) => usageAS[m] = SpanOf(vmas[m])

\* C6: curRSS never exceeds maxRSS, no step lowers the maxRSS of an MM, and
\* the child of a successful Fork starts with the parent's curRSS and maxRSS.
C6_RssBounded ==
    /\ [](\A m \in MMIds : Live(m) => curRSS[m] <= maxRSS[m])
    /\ [][/\ \A m \in MMIds : maxRSS'[m] >= maxRSS[m]
          /\ (last'.op = "Fork" /\ last'.ok)
                => /\ curRSS'[last'.child] = curRSS[last'.mm]
                   /\ maxRSS'[last'.child] = maxRSS[last'.mm]]_vars

\* the segments of segs that are kernel VMAs
KernelSegs(segs) == SelectSeq(segs, LAMBDA s : s.vma.kernel)
UserSegs(segs) == SelectSeq(segs, LAMBDA s : ~s.vma.kernel)

\* C7: after a successful Clear of MM m no VMA of the application range is
\* left (GetVma finds none at any of its addresses), the kernel VMAs are the
\* ones m had, unchanged, and no page of a removed VMA is mapped in m's table.
C7_ClearRemovesUser ==
    [][\A m \in MMIds :
          (Exec(m) /\ last'.ok)
          => /\ UserSegs(vmas'[m]) = <<>>
             /\ \A p \in AppStart .. (AppEnd - 1) : FindSeg(vmas'[m], p) = 0
             /\ vmas'[m] = KernelSegs(vmas[m])
             /\ \A p \in Pages : InUserVma(m, p) => pt'[m][p] = NoLeaf]_vars

\* a Clear has just removed the user VMA of an MM that had resident pages in
\* it, and left the kernel VMA
C7_Witness ==
    /\ last.op = "Clear" /\ last.ok /\ last.n >= 1
    /\ Len(vmas[last.mm]) = 1
    /\ vmas[last.mm][1].vma.kernel
    /\ \A p \in UserPages : pt[last.mm][p] = NoLeaf

\* the mapping references the VMAs of the MMs call for: one per page of
\* every file-backed VMA
ExpectedRefs ==
    UNION {RangeRefs(m, vmas[m][i].start, vmas[m][i].end, vmas[m][i].vma.offset) :
              <<m, i>> \in {x \in MMIds \X (1 .. (NUserPages + 1)) :
                               /\ x[2] <= Len(vmas[x[1]])
                               /\ vmas[x[1]][x[2]].vma.mappable # 0}}

\* C8: the mapping references held for each MM cover exactly its file-backed
\* VMAs, once each, and no RemoveMapping is ever asked for a mapping that was
\* not added.
C8_MappingRefsBalanced ==
    /\ \A x \in BagToSet(maprefs) \cup ExpectedRefs :
          CopiesIn(x, maprefs) = IF x \in ExpectedRefs THEN 1 ELSE 0
    /\ last.err # "FATAL"

\* C9: right after a successful Fork the child's VMAs of user space are the
\* parent's (same intervals, same metadata), and every user page the parent
\* mapped writable before the Fork is mapped read-only, to the same frame, in
\* both tables.
C9_ForkHomomorphism ==
    [][\A m \in MMIds :
          (last'.op = "Fork" /\ last'.ok /\ last'.mm = m /\ UID' = UID + 1)
          => /\ UserSegs(vmas'[last'.child]) = UserSegs(vmas[m])
             /\ vmas'[m] = vmas[m]
             /\ \A p \in WritableLeaves(m) :
                   /\ pt'[m][p] = Leaf(pt[m][p].frame, FALSE)
                   /\ pt'[last'.child][p] = Leaf(pt[m][p].frame, FALSE)]_vars

\* a Fork of an MM with a shared user VMA and a writable page in it has just
\* succeeded: the child holds the VMA and maps the page read-only
C9_Witness ==
    /\ last.op = "Fork" /\ last.ok /\ last.n >= 1
    /\ Live(last.child)
    /\ \E i \in 1 .. Len(vmas[last.child]) :
          /\ ~vmas[last.child][i].vma.kernel
          /\ ~vmas[last.child][i].vma.private
          /\ pt[last.child][vmas[last.child][i].start].frame # NoFrame
          /\ ~pt[last.child][vmas[last.child][i].start].w
          /\ pt[last.mm][vmas[last.child][i].start] = pt[last.child][vmas[last.child][i].start]

\* C10: once a Fork has failed, no mapping reference is left for the child
\* it abandoned.
C10_ForkFailureUnwinds ==
    (last.op = "Fork" /\ ~last.ok) => RefsOf(maprefs, last.child) = {}

\* ====================================================== user-memory access
\* the system of the user-memory layer: one mapping, Fork, and the entry
\* points of mm.rs and task_usermem.rs called with every address of the
\* null page and of the application range, aligned or not
UserStart == AppStart * PAGE_SIZE
\* the ranges <<vAddr, len>> the calls are made with: the null address, a
\* range that starts in the null page, one byte at an aligned and at an
\* unaligned address, a page-sized range across a page boundary, two whole
\* pages, and a range that runs from the last user page into the kernel VMA
Ranges ==
    {<<0, 1>>, <<PAGE_SIZE - 1, 2>>, <<UserStart, 1>>, <<UserStart + 1, 1>>,
     <<UserStart + 1, PAGE_SIZE>>, <<UserStart, 2 * PAGE_SIZE>>,
     <<AppEnd * PAGE_SIZE - 1, 2>>}
\* the pages that overlap [vAddr, vAddr + len)
PagesOf(vAddr, len) == PageOf(vAddr) .. PageOf(vAddr + len - 1)

NextUsr ==
    \/ \E m \in MMIds, kind \in Kinds, s \in UserPages, e \in 2 .. AppEnd :
          MMap(m, kind, s, e, FALSE)
    \/ \E m \in MMIds : DoFork(m, NoFail)
    \/ \E m \in MMIds, r \in Ranges, w \in BOOLEAN, ap \in BOOLEAN :
          FixPerm(m, r[1], r[2], w, ap)

SpecUsr == Init /\ [][NextUsr]_vars

\* MemoryManager::VirtualToPhy(vAddr), the public translation
Translate(m, vAddr) ==
    /\ Live(m)
    /\ \E r \in {MemoryManager_VirtualToPhy(pt[m], vAddr)} :
          last' = [Last("VirtualToPhy", m, 0, r.ok, r.err, r.pAddr, 0)
                     EXCEPT !.arg = [vAddr |-> vAddr, len |-> 1]]
    /\ UNCHANGED <<inited, alive, vmas, domain, usageAS, curRSS, maxRSS, pt, refcnt,
                   mem, maprefs, UID, writes, maps>>
    /\ UNCHANGED <<task, mapping, lock>>
    /\ UNCHANGED <<handle, dropClears, cr3, uids>>
    /\ UNCHANGED kvars

\* V2PIov(task, start, len, output, writable); out is the output
DoV2PIov(m, start, len, writable) ==
    /\ Live(m)
    /\ \E r \in {V2PIov(St(pt[m], refcnt, mem, FALSE), vmas[m], start, len, writable)} :
          /\ ~r.S.oom
          /\ pt' = [pt EXCEPT ![m] = r.S.pt]
          /\ refcnt' = r.S.ref
          /\ mem' = r.S.mem
          /\ last' = [Last("V2PIov", m, 0, r.ok, r.err, 0, 0)
                        EXCEPT !.arg = [vAddr |-> start, len |-> len,
                                        writable |-> writable],
                               !.out = r.iovs]
    /\ UNCHANGED <<inited, alive, vmas, domain, usageAS, curRSS, maxRSS,
                   maprefs, UID, writes, maps>>
    /\ UNCHANGED <<task, mapping, lock>>
    /\ UNCHANGED <<handle, dropClears, cr3, uids>>
    /\ UNCHANGED kvars

\* the translation system: one mapping, Fork, faults, and the two public
\* translations of the MM
NextIov ==
    \/ \E m \in MMIds, kind \in Kinds, s \in UserPages, e \in 2 .. AppEnd :
          MMap(m, kind, s, e, FALSE)
    \/ \E m \in MMIds : DoFork(m, NoFail)
    \/ \E m \in MMIds, p \in UserPages : Fault(m, p)
    \/ \E m \in MMIds, a \in 0 .. (AppEnd * PAGE_SIZE - 1) : Translate(m, a)
    \/ \E m \in MMIds, r \in Ranges, w \in BOOLEAN : DoV2PIov(m, r[1], r[2], w)

SpecIov == Init /\ [][NextIov]_vars

\* ------------------------------------------------------- object transfers
\* a plain value T is ObjLen bytes, so that an object at an unaligned
\* address spans two pages
ObjLen == PAGE_SIZE
\* the values transferred: what fresh anonymous memory holds, what the file
\* holds, and a value no memory holds at the start
Objs == {[i \in 1 .. ObjLen |-> 0], [i \in 1 .. ObjLen |-> 1],
         [i \in 1 .. ObjLen |-> IF i = 1 THEN 1 ELSE 2]}
\* the addresses of objects: aligned in the first page, across the boundary
\* of the two user pages, and in no user page
ObjAddrs == {UserStart, UserStart + 1, AppEnd * PAGE_SIZE + PAGE_SIZE}

\* the size bytes a task of MM m reads at vAddr (pages resident)
ReadObj(m, vAddr, size) ==
    [i \in 1 .. size |->
        mem[pt[m][PageOf(vAddr + i - 1)].frame][(vAddr + i - 1) % PAGE_SIZE]]

\* CopyOutObj(task, src, dst)
DoCopyOutObj(m, src, dst) ==
    /\ Live(m)
    /\ writes < MaxCalls
    /\ \E r \in {CopyOutObjLocked(St(pt[m], refcnt, mem, FALSE), vmas[m], src, dst)} :
          /\ ~r.S.oom
          /\ pt' = [pt EXCEPT ![m] = r.S.pt]
          /\ refcnt' = r.S.ref
          /\ mem' = r.S.mem
          /\ last' = [Last("CopyOutObj", m, 0, r.ok, r.err, 0, 0)
                        EXCEPT !.arg = [vAddr |-> dst, obj |-> src]]
    /\ writes' = writes + 1
    /\ UNCHANGED <<inited, alive, vmas, domain, usageAS, curRSS, maxRSS,
                   maprefs, UID, maps>>
    /\ UNCHANGED <<task, mapping, lock>>
    /\ UNCHANGED <<handle, dropClears, cr3, uids>>
    /\ UNCHANGED kvars

\* CopyInObj(task, src); out is the object read
DoCopyInObj(m, src) ==
    /\ Live(m)
    /\ writes < MaxCalls
    /\ \E r \in {CopyInObjLocked(St(pt[m], refcnt, mem, FALSE), vmas[m], src, ObjLen)} :
          /\ ~r.S.oom
          /\ pt' = [pt EXCEPT ![m] = r.S.pt]
          /\ refcnt' = r.S.ref
          /\ mem' = r.S.mem
          /\ last' = [Last("CopyInObj", m, 0, r.ok, r.err, 0, 0)
                        EXCEPT !.arg = [vAddr |-> src, after |-> last.op],
                               !.out = r.data]
    /\ writes' = writes + 1
    /\ UNCHANGED <<inited, alive, vmas, domain, usageAS, curRSS, maxRSS,
                   maprefs, UID, maps>>
    /\ UNCHANGED <<task, mapping, lock>>
    /\ UNCHANGED <<handle, dropClears, cr3, uids>>
    /\ UNCHANGED kvars

\* CompareAndSwap(task, addr, old, new); out is the value returned
DoCompareAndSwap(m, addr, old, new) ==
    /\ Live(m)
    /\ writes < MaxCalls
    /\ \E r \in {CompareAndSwap(St(pt[m], refcnt, mem, FALSE), vmas[m], addr, old, new)} :
          /\ ~r.S.oom
          /\ pt' = [pt EXCEPT ![m] = r.S.pt]
          /\ refcnt' = r.S.ref
          /\ mem' = r.S.mem
          /\ last' = [Last("CompareAndSwap", m, 0, r.ok, r.err, 0, 0)
                        EXCEPT !.arg = [vAddr |-> addr, old |-> old, new |-> new],
                               !.out = IF r.ok THEN r.val ELSE <<>>]
    /\ writes' = writes + 1
    /\ UNCHANGED <<inited, alive, vmas, domain, usageAS, curRSS, maxRSS,
                   maprefs, UID, maps>>
    /\ UNCHANGED <<task, mapping, lock>>
    /\ UNCHANGED <<handle, dropClears, cr3, uids>>
    /\ UNCHANGED kvars

\* the object system: one mapping, Fork, and the object transfers
NextObj ==
    \/ \E m \in MMIds, kind \in Kinds, s \in UserPages, e \in 2 .. AppEnd :
          MMap(m, kind, s, e, FALSE)
    \/ \E m \in MMIds : DoFork(m, NoFail)
    \/ \E m \in MMIds, x \in Objs, a \in ObjAddrs : DoCopyOutObj(m, x, a)
    \/ \E m \in MMIds, a \in ObjAddrs : DoCopyInObj(m, a)
    \/ \E m \in MMIds, a \in ObjAddrs, old \in Objs, new \in Objs :
          DoCompareAndSwap(m, a, old, new)

SpecObj == Init /\ [][NextObj]_vars

\* ------------------------------------------------------ string transfers
\* the strings written: the empty string, a one-byte string, and a string
\* whose two bytes are the address of its own second byte, so that the
\* bytes CopyOutString(UserStart, .., s) leaves are also an argv array of
\* two pointers to a one-byte string and the NULL pointer
Strs == {<<>>, <<1>>, <<UserStart + 1, UserStart + 1>>}
\* the addresses of strings and arrays: null, aligned, unaligned
StrAddrs == {0, UserStart, UserStart + 1}
\* the slices CopyOutSlice is called with
Slices == {<<1, 2>>, <<1, 0, 2>>}

\* Task::CopyOutString(vAddr, len, s)
DoCopyOutString(m, vAddr, len, s) ==
    /\ Live(m)
    /\ writes < MaxCalls
    /\ \E r \in {CopyOutString(St(pt[m], refcnt, mem, FALSE), vmas[m], vAddr, len, s)} :
          /\ ~r.S.oom
          /\ pt' = [pt EXCEPT ![m] = r.S.pt]
          /\ refcnt' = r.S.ref
          /\ mem' = r.S.mem
          /\ last' = [Last("CopyOutString", m, 0, r.ok, r.err, 0, 0)
                        EXCEPT !.arg = [vAddr |-> vAddr, len |-> len, s |-> s]]
    /\ writes' = writes + 1
    /\ UNCHANGED <<inited, alive, vmas, domain, usageAS, curRSS, maxRSS,
                   maprefs, UID, maps>>
    /\ UNCHANGED <<task, mapping, lock>>
    /\ UNCHANGED <<handle, dropClears, cr3, uids>>
    /\ UNCHANGED kvars

\* CopyOutSlice(src, dst, len); the iovec scratch buffer of the task is
\* empty again when a transfer returns (defer!(iovs.clear()))
DoCopyOutSlice(m, src, dst, len) ==
    /\ Live(m)
    /\ writes < MaxCalls
    /\ \E r \in {CopyOutSlice(St(pt[m], refcnt, mem, FALSE), vmas[m], src, dst, len)} :
          /\ ~r.S.oom
          /\ pt' = [pt EXCEPT ![m] = r.S.pt]
          /\ refcnt' = r.S.ref
          /\ mem' = r.S.mem
          /\ last' = [Last("CopyOutSlice", m, 0, r.ok, r.err, 0, 0)
                        EXCEPT !.arg = [vAddr |-> dst, len |-> len, s |-> src]]
    /\ writes' = writes + 1
    /\ UNCHANGED <<inited, alive, vmas, domain, usageAS, curRSS, maxRSS,
                   maprefs, UID, maps>>
    /\ UNCHANGED <<task, mapping, lock>>
    /\ UNCHANGED <<handle, dropClears, cr3, uids>>
    /\ UNCHANGED kvars

\* CopyInString(addr, maxlen); out is the string, err its Result
DoCopyInString(m, addr, maxlen) ==
    /\ Live(m)
    /\ \E r \in {CopyInString(St(pt[m], refcnt, mem, FALSE), vmas[m], addr, maxlen)} :
          /\ ~r.S.oom
          /\ pt' = [pt EXCEPT ![m] = r.S.pt]
          /\ refcnt' = r.S.ref
          /\ mem' = r.S.mem
          /\ last' = [Last("CopyInString", m, 0, r.err = "", r.err, 0, 0)
                        EXCEPT !.arg = [vAddr |-> addr, len |-> maxlen],
                               !.out = r.str]
    /\ UNCHANGED <<inited, alive, vmas, domain, usageAS, curRSS, maxRSS,
                   maprefs, UID, writes, maps>>
    /\ UNCHANGED <<task, mapping, lock>>
    /\ UNCHANGED <<handle, dropClears, cr3, uids>>
    /\ UNCHANGED kvars

\* CopyInVector(addr, maxElemSize, maxTotalSize); strs is the vector
DoCopyInVector(m, addr, maxElemSize, maxTotalSize) ==
    /\ Live(m)
    /\ \E r \in {CopyInVector(St(pt[m], refcnt, mem, FALSE), vmas[m], addr,
                             maxElemSize, maxTotalSize)} :
          /\ ~r.S.oom
          /\ pt' = [pt EXCEPT ![m] = r.S.pt]
          /\ refcnt' = r.S.ref
          /\ mem' = r.S.mem
          /\ last' = [Last("CopyInVector", m, 0, r.ok, r.err, 0, 0)
                        EXCEPT !.arg = [vAddr |-> addr, len |-> maxElemSize,
                                        total |-> maxTotalSize],
                               !.strs = r.v]
    /\ UNCHANGED <<inited, alive, vmas, domain, usageAS, curRSS, maxRSS,
                   maprefs, UID, writes, maps>>
    /\ UNCHANGED <<task, mapping, lock>>
    /\ UNCHANGED <<handle, dropClears, cr3, uids>>
    /\ UNCHANGED kvars

\* the string system: one mapping and the string, slice and vector calls
NextStr ==
    \/ \E m \in MMIds, kind \in Kinds, s \in UserPages, e \in 2 .. AppEnd :
          MMap(m, kind, s, e, FALSE)
    \/ \E m \in MMIds, a \in StrAddrs, len \in 0 .. MaxLen, s \in Strs :
          DoCopyOutString(m, a, len, s)
    \/ \E m \in MMIds, src \in Slices, len \in 1 .. MaxLen :
          DoCopyOutSlice(m, src, UserStart, len)
    \/ \E m \in MMIds, a \in StrAddrs, maxlen \in 0 .. MaxLen :
          DoCopyInString(m, a, maxlen)
    \/ \E m \in MMIds, a \in {0, UserStart}, maxElemSize \in 1 .. MaxLen,
          maxTotalSize \in 0 .. (MaxLen + 1) :
          DoCopyInVector(m, a, maxElemSize, maxTotalSize)

SpecStr == Init /\ [][NextStr]_vars

\* ------------------------------------------------------------- threads
\* Two threads of the root MM run entry points step by step on one object
\* at ConcAddr.  The positions (pc) of a thread:
\*   "lock"     before MappingLock().write() returns
\*   "fix"      before the translation (V2PLocked: permission fix and walk)
\*   "copy"     translated, before the byte copy
\*   "vtp"      FixPermission before its match on VirtualToPhy(addr)
\*   "mutex"    InstallPageWithAddr before lock.lock() returns
\*   "install"  InstallPageWithAddr holding lock
\*   "check"    FixPermission before its test of writeReq && !writable
\*   "cowmutex" CopyOnWrite before lock.lock() returns
\*   "cow"      CopyOnWrite holding lock
\* phase is 2 once SwapObj has read and is in its CopyOutObj.
ConcMM == 1
ConcAddr == UserStart
ConcPage == PageOf(ConcAddr)
\* the bytes CopyDataOut and SwapObj store
ConcData == [i \in 1 .. ObjLen |-> 2]
\* the entry points that take MappingLock().write() on entry, all transfers,
\* and the fault handling
LockedOps == {"CopyDataOut", "SwapObj"}
TransferOps == LockedOps \cup {"CopyInVec"}
FaultOps == {"InstallPageWithAddr", "FixPermission"}
EntryPoints == TransferOps \cup FaultOps

\* thread t enters op
Call(t, op) ==
    /\ Live(ConcMM)
    /\ task[t] = Idle
    /\ task' = [task EXCEPT ![t] =
                   [Idle EXCEPT !.op = op, !.phase = 1,
                                !.pc = CASE op \in LockedOps -> "lock"
                                         [] op = "CopyInVec" -> "fix"
                                         [] op = "InstallPageWithAddr" -> "mutex"
                                         [] op = "FixPermission" -> "vtp"]]
    /\ UNCHANGED <<inited, alive, vmas, domain, usageAS, curRSS, maxRSS, pt, refcnt,
                   mem, maprefs, UID, writes, maps, last, mapping, lock>>
    /\ UNCHANGED <<handle, dropClears, cr3, uids>>
    /\ UNCHANGED kvars

\* ml.write() returns: the lock was free (a write lock is not reentrant)
AcquireMapping(t) ==
    /\ task[t].pc = "lock"
    /\ mapping = 0
    /\ mapping' = t
    /\ task' = [task EXCEPT ![t].pc = "fix"]
    /\ UNCHANGED <<inited, alive, vmas, domain, usageAS, curRSS, maxRSS, pt, refcnt,
                   mem, maprefs, UID, writes, maps, last, lock>>
    /\ UNCHANGED <<handle, dropClears, cr3, uids>>
    /\ UNCHANGED kvars

\* the translation of CopyDataInLocked / CopyDataOutLocked; on an error the
\* entry point returns and its guard, if it holds one, is dropped
TranslateStep(t) ==
    /\ task[t].pc = "fix"
    /\ \E r \in {V2PLocked(St(pt[ConcMM], refcnt, mem, FALSE), vmas[ConcMM], ConcAddr,
                            ObjLen, FALSE)} :
          /\ ~r.S.oom
          /\ pt' = [pt EXCEPT ![ConcMM] = r.S.pt]
          /\ refcnt' = r.S.ref
          /\ mem' = r.S.mem
          /\ task' = [task EXCEPT ![t] =
                         IF r.ok THEN [@ EXCEPT !.pc = "copy", !.iovs = r.iovs]
                         ELSE Idle]
          /\ mapping' = IF ~r.ok /\ mapping = t THEN 0 ELSE mapping
    /\ UNCHANGED <<inited, alive, vmas, domain, usageAS, curRSS, maxRSS, maprefs, UID,
                   writes, maps, last, lock>>
    /\ UNCHANGED <<handle, dropClears, cr3, uids>>
    /\ UNCHANGED kvars

\* thread t is about to store (CopyDataOutLocked) rather than load
Storing(t) == task[t].op = "CopyDataOut" \/ (task[t].op = "SwapObj" /\ task[t].phase = 2)

\* the byte copy against the iovecs.  After a store the entry point returns
\* and drops its guards; after its load CopyInVec returns, and SwapObj goes
\* on to CopyOutObj -> CopyDataOut, which takes MappingLock().write()
CopyStep(t) ==
    /\ task[t].pc = "copy"
    /\ IF Storing(t)
       THEN /\ mem' = CopyOutIovs(mem, task[t].iovs, ConcData, 0)
            /\ task' = [task EXCEPT ![t] = Idle]
            /\ mapping' = IF mapping = t THEN 0 ELSE mapping
       ELSE /\ mem' = mem
            /\ task' = [task EXCEPT ![t] =
                           IF @.op = "SwapObj"
                           THEN [@ EXCEPT !.pc = "lock", !.phase = 2, !.iovs = <<>>,
                                          !.val = CopyInIovs(mem, task[t].iovs)]
                           ELSE Idle]
            /\ mapping' = mapping
    /\ UNCHANGED <<inited, alive, vmas, domain, usageAS, curRSS, maxRSS, pt, refcnt,
                   maprefs, UID, writes, maps, last, lock>>
    /\ UNCHANGED <<handle, dropClears, cr3, uids>>
    /\ UNCHANGED kvars

\* FixPermission(ConcAddr, 1, writeReq = true, ..): the match on VirtualToPhy
FixVtp(t) ==
    /\ task[t].pc = "vtp"
    /\ task' = [task EXCEPT ![t].pc =
                   IF VirtualToPhy(pt[ConcMM], ConcPage).frame = NoFrame
                   THEN "mutex" ELSE "check"]
    /\ UNCHANGED <<inited, alive, vmas, domain, usageAS, curRSS, maxRSS, pt, refcnt,
                   mem, maprefs, UID, writes, maps, last, mapping, lock>>
    /\ UNCHANGED <<handle, dropClears, cr3, uids>>
    /\ UNCHANGED kvars

\* lock.lock() returns in InstallPageWithAddr or CopyOnWrite
AcquireMutex(t) ==
    /\ task[t].pc \in {"mutex", "cowmutex"}
    /\ lock = 0
    /\ lock' = t
    /\ task' = [task EXCEPT ![t].pc = IF @ = "mutex" THEN "install" ELSE "cow"]
    /\ UNCHANGED <<inited, alive, vmas, domain, usageAS, curRSS, maxRSS, pt, refcnt,
                   mem, maprefs, UID, writes, maps, last, mapping>>
    /\ UNCHANGED <<handle, dropClears, cr3, uids>>
    /\ UNCHANGED kvars

\* the body of InstallPageWithAddr; the guard is dropped on return.  val of
\* the record is 1 when the page was mapped at the call, n the thread
InstallStep(t) ==
    /\ task[t].pc = "install"
    /\ \E r \in {InstallPageWithAddr(St(pt[ConcMM], refcnt, mem, FALSE), vmas[ConcMM],
                                      ConcPage)} :
          /\ ~r.S.oom
          /\ pt' = [pt EXCEPT ![ConcMM] = r.S.pt]
          /\ refcnt' = r.S.ref
          /\ task' = [task EXCEPT ![t] =
                         IF @.op = "FixPermission" /\ r.ok THEN [@ EXCEPT !.pc = "check"]
                         ELSE Idle]
          /\ last' = Last("InstallPageWithAddr", ConcMM, 0, r.ok,
                          IF r.ok THEN "" ELSE "EFAULT",
                          IF VirtualToPhy(pt[ConcMM], ConcPage).frame # NoFrame
                          THEN 1 ELSE 0, t)
    /\ lock' = 0
    /\ UNCHANGED <<inited, alive, vmas, domain, usageAS, curRSS, maxRSS, mem, maprefs,
                   UID, writes, maps, mapping>>
    /\ UNCHANGED <<handle, dropClears, cr3, uids>>
    /\ UNCHANGED kvars

\* FixPermission: writeReq && !writable, GetVma, effectivePerms.Write()
FixCheck(t) ==
    /\ task[t].pc = "check"
    /\ task' = [task EXCEPT ![t] =
                   IF /\ ~VirtualToPhy(pt[ConcMM], ConcPage).w
                      /\ FindSeg(vmas[ConcMM], ConcPage) # 0
                      /\ VmaAt(ConcMM, ConcPage).write
                   THEN [@ EXCEPT !.pc = "cowmutex"]
                   ELSE Idle]
    /\ UNCHANGED <<inited, alive, vmas, domain, usageAS, curRSS, maxRSS, pt, refcnt,
                   mem, maprefs, UID, writes, maps, last, mapping, lock>>
    /\ UNCHANGED <<handle, dropClears, cr3, uids>>
    /\ UNCHANGED kvars

\* the body of CopyOnWrite; the guard is dropped on return and FixPermission
\* returns Ok.  val of the record is 1 when the leaf was writable at the
\* call, n the thread
CowStep(t) ==
    /\ task[t].pc = "cow"
    /\ \E S \in {CopyOnWriteLocked(St(pt[ConcMM], refcnt, mem, FALSE), ConcPage,
                                    VmaAt(ConcMM, ConcPage))} :
          /\ ~S.oom
          /\ pt' = [pt EXCEPT ![ConcMM] = S.pt]
          /\ refcnt' = S.ref
          /\ mem' = S.mem
    /\ last' = Last("CopyOnWrite", ConcMM, 0, TRUE, "",
                    IF VirtualToPhy(pt[ConcMM], ConcPage).w THEN 1 ELSE 0, t)
    /\ task' = [task EXCEPT ![t] = Idle]
    /\ lock' = 0
    /\ UNCHANGED <<inited, alive, vmas, domain, usageAS, curRSS, maxRSS, maprefs,
                   UID, writes, maps, mapping>>
    /\ UNCHANGED <<handle, dropClears, cr3, uids>>
    /\ UNCHANGED kvars

\* the thread system: one mapping of the object's page, then the threads
NextConc ==
    \/ \E kind \in CowKinds : MMap(ConcMM, kind, ConcPage, ConcPage + 1, FALSE)
    \/ \E t \in Threads, op \in EntryPoints : Call(t, op)
    \/ \E t \in Threads : AcquireMapping(t)
    \/ \E t \in Threads : TranslateStep(t)
    \/ \E t \in Threads : CopyStep(t)
    \/ \E t \in Threads : FixVtp(t)
    \/ \E t \in Threads : AcquireMutex(t)
    \/ \E t \in Threads : InstallStep(t)
    \/ \E t \in Threads : FixCheck(t)
    \/ \E t \in Threads : CowStep(t)

SpecConc == Init /\ [][NextConc]_vars

\* ---------------------------------------------------------------- statm
\* the decimal digits of n as bytes, as format!("{}") writes them
RECURSIVE Decimal(_)
Decimal(n) == IF n < 10 THEN <<48 + n>> ELSE Append(Decimal(n \div 10), 48 + (n % 10))

\* format!("{} {} 0 0 0 0 0\n", a, b).as_bytes()
FormatStatm(a, b) ==
    Decimal(a) \o <<32>> \o Decimal(b) \o <<32, 48, 32, 48, 32, 48, 32, 48, 32, 48, 10>>

\* GenStatmSnapshot on the MM with the counters M
GenStatmSnapshot(M) ==
    LET vss == M.curRSS
        rss == M.maxRSS
    IN  FormatStatm(vss \div PAGE_SIZE, rss \div PAGE_SIZE)

\* GenStatmSnapshot(task) on the MM m; the bytes go to last.out
DoStatm(m) ==
    /\ Live(m)
    /\ last' = [Last("GenStatmSnapshot", m, 0, TRUE, "", 0, 0) EXCEPT !.out =
                  GenStatmSnapshot([usageAS |-> usageAS[m], curRSS |-> curRSS[m],
                                    maxRSS |-> maxRSS[m]])]
    /\ UNCHANGED <<inited, alive, vmas, domain, usageAS, curRSS, maxRSS, pt, refcnt,
                   mem, maprefs, UID, writes, maps>>
    /\ UNCHANGED <<task, mapping, lock>>
    /\ UNCHANGED <<handle, dropClears, cr3, uids>>
    /\ UNCHANGED kvars

\* mappings, faults, unmappings and snapshots
NextStat ==
    \/ \E m \in MMIds, kind \in Kinds, s \in UserPages, e \in 2 .. AppEnd :
          MMap(m, kind, s, e, FALSE)
    \/ \E m \in MMIds, p \in UserPages : Fault(m, p)
    \/ \E m \in MMIds, s \in UserPages, e \in 2 .. AppEnd : Munmap(m, s, e)
    \/ \E m \in MMIds : DoStatm(m)

SpecStat == Init /\ [][NextStat]_vars

\* ------------------------------------------------------------ lifecycle
\* The threads make MMs (Empty, Init), hand out further handles (Clone,
\* Downgrade, Upgrade), load an MM's page table on their CPU, reuse an MM
\* for exec (Clear) and drop their handles, step by step.  Positions (pc):
\*   "newuid"   in Empty() / Init() before NewUID() returns
\*   "check"    Drop::drop before it reads inited and Arc::strong_count
\*   "clear"    Clear before it reads IsActivePagetable()
\*   "unmap"    Clear before self.write() and its loop over the VMAs
\*   "release"  drop() has returned, the Arc of the handle not yet released
\* phase is 1 when Clear found the table active.

\* no MM exists yet and NewUID() has not been called: UID is AtomicU64::new(1)
InitLife ==
    /\ inited = [m \in MMIds |-> FALSE]
    /\ alive = [m \in MMIds |-> FALSE]
    /\ vmas = [m \in MMIds |-> <<>>]
    /\ domain = [m \in MMIds |-> <<0, LOWER_TOP>>]
    /\ usageAS = [m \in MMIds |-> 0]
    /\ curRSS = [m \in MMIds |-> 0]
    /\ maxRSS = [m \in MMIds |-> 0]
    /\ pt = [m \in MMIds |-> EmptyPt]
    /\ refcnt = [f \in Frames |-> 0]
    /\ mem = [f \in Frames |-> [b \in 0 .. (PAGE_SIZE - 1) |->
                                   IF f \in FileFrames THEN 1 ELSE 0]]
    /\ maprefs = EmptyBag
    /\ UID = 1
    /\ writes = 0
    /\ maps = 0
    /\ task = [t \in Threads |-> Idle]
    /\ mapping = 0
    /\ lock = 0
    /\ handle = [t \in Threads |-> NoHandle]
    /\ dropClears = [m \in MMIds |-> 0]
    /\ cr3 = [t \in Threads |-> 0]
    /\ uids = <<>>
    /\ last = Last("", 0, 0, TRUE, "", 0, 0)
    /\ KernelInit

\* Arc::strong_count(&self.data) for the MM m
StrongCount(m) == Cardinality({t \in Threads : handle[t] = Strong(m)})

\* thread t calls MemoryManager::Empty() or MemoryManager::Init()
Enter(t, op) ==
    /\ task[t] = Idle
    /\ handle[t] = NoHandle
    /\ op \in {"Empty", "Init"}
    /\ task' = [task EXCEPT ![t] = [Idle EXCEPT !.op = op, !.pc = "newuid"]]
    /\ UNCHANGED <<inited, alive, vmas, domain, usageAS, curRSS, maxRSS, pt, refcnt,
                   mem, maprefs, UID, writes, maps, last, mapping, lock>>
    /\ UNCHANGED <<handle, dropClears, cr3, uids>>
    /\ UNCHANGED kvars

\* uid: NewUID() and the rest of Empty() / Init(): the new MM is
\* MemoryManagerInternal::default() or has the kernel VMA and a fork of the
\* kernel page table; the thread holds its only handle
MakeMM(t) ==
    /\ task[t].pc = "newuid"
    /\ UID <= MaxMM
    /\ \E r \in {NewUID(UID)} :
          /\ UID' = r.next
          /\ uids' = Append(uids, Made(task[t].op, r.ret, 0))
          /\ inited' = [inited EXCEPT ![r.ret] = task[t].op = "Init"]
          /\ alive' = [alive EXCEPT ![r.ret] = TRUE]
          /\ vmas' = [vmas EXCEPT ![r.ret] =
                         IF task[t].op = "Init"
                         THEN <<Seg(KernelPage, KernelPage + 1, KernelVMA)>> ELSE <<>>]
          /\ domain' = [domain EXCEPT ![r.ret] =
                           IF task[t].op = "Init" THEN <<0, FULL_TOP>>
                           ELSE <<0, LOWER_TOP>>]
          /\ pt' = [pt EXCEPT ![r.ret] = IF task[t].op = "Init" THEN KernelPt
                                         ELSE EmptyPt]
          /\ usageAS' = [usageAS EXCEPT ![r.ret] = 0]
          /\ curRSS' = [curRSS EXCEPT ![r.ret] = 0]
          /\ maxRSS' = [maxRSS EXCEPT ![r.ret] = 0]
          /\ handle' = [handle EXCEPT ![t] = Strong(r.ret)]
          /\ last' = Last(task[t].op, r.ret, 0, TRUE, "", 0, 0)
    /\ task' = [task EXCEPT ![t] = Idle]
    /\ UNCHANGED <<refcnt, mem, maprefs, writes, maps, mapping, lock, dropClears, cr3>>
    /\ UNCHANGED kvars

\* #[derive(Clone)]: thread t hands a clone of its MemoryManager to thread u
Clone(t, u) ==
    /\ handle[t].kind = "strong" /\ task[t] = Idle
    /\ handle[u] = NoHandle /\ task[u] = Idle
    /\ handle' = [handle EXCEPT ![u] = handle[t]]
    /\ UNCHANGED <<inited, alive, vmas, domain, usageAS, curRSS, maxRSS, pt, refcnt,
                   mem, maprefs, UID, writes, maps, last, task, mapping, lock>>
    /\ UNCHANGED <<dropClears, cr3, uids>>
    /\ UNCHANGED kvars

\* Downgrade(): thread t hands a MemoryManagerWeak to thread u
Downgrade(t, u) ==
    /\ handle[t].kind = "strong" /\ task[t] = Idle
    /\ handle[u] = NoHandle /\ task[u] = Idle
    /\ handle' = [handle EXCEPT ![u] = Weak(handle[t].mm)]
    /\ UNCHANGED <<inited, alive, vmas, domain, usageAS, curRSS, maxRSS, pt, refcnt,
                   mem, maprefs, UID, writes, maps, last, task, mapping, lock>>
    /\ UNCHANGED <<dropClears, cr3, uids>>
    /\ UNCHANGED kvars

\* MemoryManagerWeak::Upgrade(): succeeds while a strong handle exists (the
\* expect() aborts otherwise)
Upgrade(u) ==
    /\ handle[u].kind = "weak"
    /\ StrongCount(handle[u].mm) > 0
    /\ handle' = [handle EXCEPT ![u] = Strong(handle[u].mm)]
    /\ UNCHANGED <<inited, alive, vmas, domain, usageAS, curRSS, maxRSS, pt, refcnt,
                   mem, maprefs, UID, writes, maps, last, task, mapping, lock>>
    /\ UNCHANGED <<dropClears, cr3, uids>>
    /\ UNCHANGED kvars

\* the CPU of thread t loads the page table of the MM the thread runs on
\* (to = 1) or the kernel page table (to = 0)
SwitchTo(t, to) ==
    /\ task[t] = Idle
    /\ handle[t].kind = "strong" /\ inited[handle[t].mm]
    /\ cr3' = [cr3 EXCEPT ![t] = IF to = 1 THEN handle[t].mm ELSE 0]
    /\ UNCHANGED <<inited, alive, vmas, domain, usageAS, curRSS, maxRSS, pt, refcnt,
                   mem, maprefs, UID, writes, maps, last, task, mapping, lock>>
    /\ UNCHANGED <<handle, dropClears, uids>>
    /\ UNCHANGED kvars

\* thread t calls Clear() on its MM (exec reuses the MM)
CallClear(t) ==
    /\ task[t] = Idle
    /\ handle[t].kind = "strong" /\ inited[handle[t].mm]
    /\ task' = [task EXCEPT ![t] = [Idle EXCEPT !.op = "Clear", !.pc = "clear"]]
    /\ UNCHANGED <<inited, alive, vmas, domain, usageAS, curRSS, maxRSS, pt, refcnt,
                   mem, maprefs, UID, writes, maps, last, mapping, lock>>
    /\ UNCHANGED <<handle, dropClears, cr3, uids>>
    /\ UNCHANGED kvars

\* the MemoryManager of thread t goes out of scope: drop(&mut self) starts
DropStart(t) ==
    /\ task[t] = Idle
    /\ handle[t].kind = "strong"
    /\ dropClears[handle[t].mm] < MaxClears
    /\ task' = [task EXCEPT ![t] = [Idle EXCEPT !.op = "Drop", !.pc = "check"]]
    /\ UNCHANGED <<inited, alive, vmas, domain, usageAS, curRSS, maxRSS, pt, refcnt,
                   mem, maprefs, UID, writes, maps, last, mapping, lock>>
    /\ UNCHANGED <<handle, dropClears, cr3, uids>>
    /\ UNCHANGED kvars

\* the two tests of drop(): where it goes on
DropDecision(isInited, strongCount) ==
    IF ~isInited THEN "release"
    ELSE IF strongCount = 1 THEN "clear"
    ELSE "release"

\* drop() reads inited and Arc::strong_count(&self.data)
DropCheck(t) ==
    /\ task[t].op = "Drop" /\ task[t].pc = "check"
    /\ task' = [task EXCEPT ![t].pc =
                   DropDecision(inited[handle[t].mm], StrongCount(handle[t].mm))]
    /\ UNCHANGED <<inited, alive, vmas, domain, usageAS, curRSS, maxRSS, pt, refcnt,
                   mem, maprefs, UID, writes, maps, last, mapping, lock>>
    /\ UNCHANGED <<handle, dropClears, cr3, uids>>
    /\ UNCHANGED kvars

\* a Clear that leaves the loaded page table as it is
KernelSwitch_Never(loaded, mm) == loaded

\* if isCurrent { KERNEL_PAGETABLE.SwitchTo() }: the table loaded afterwards
KernelSwitch(loaded, mm) == IF loaded = mm THEN 0 ELSE loaded

\* Clear reads IsActivePagetable() and switches to the kernel page table
ClearBegin(t) ==
    /\ task[t].pc = "clear"
    /\ cr3' = [cr3 EXCEPT ![t] = KernelSwitch(cr3[t], handle[t].mm)]
    /\ task' = [task EXCEPT ![t].pc = "unmap",
                            ![t].phase = IF cr3[t] = handle[t].mm THEN 1 ELSE 0]
    /\ UNCHANGED <<inited, alive, vmas, domain, usageAS, curRSS, maxRSS, pt, refcnt,
                   mem, maprefs, UID, writes, maps, last, mapping, lock>>
    /\ UNCHANGED <<handle, dropClears, uids>>
    /\ UNCHANGED kvars

\* the loop of Clear under self.write(); val of the record is 1 when the
\* table was active at the call, n the number of resident user pages
ClearUnmap(t) ==
    /\ task[t].pc = "unmap"
    /\ \E m \in {handle[t].mm} :
       \E M \in {Clear([vmas |-> vmas[m], usageAS |-> usageAS[m], curRSS |-> curRSS[m],
                        pt |-> pt[m], ref |-> refcnt, maprefs |-> maprefs,
                        fatal |-> FALSE], m)} :
          /\ vmas' = [vmas EXCEPT ![m] = M.vmas]
          /\ pt' = [pt EXCEPT ![m] = M.pt]
          /\ refcnt' = M.ref
          /\ maprefs' = M.maprefs
          /\ last' = [Last("Clear", m, 0, ~M.fatal, IF M.fatal THEN "FATAL" ELSE "",
                           task[t].phase, Cardinality(Resident(m, 0, FULL_TOP)))
                        EXCEPT !.arg = [by |-> t, loaded |-> cr3[t]]]
          /\ dropClears' = [dropClears EXCEPT ![m] =
                              IF task[t].op = "Drop" THEN @ + 1 ELSE @]
    /\ task' = [task EXCEPT ![t] = IF task[t].op = "Drop"
                                   THEN [task[t] EXCEPT !.pc = "release"] ELSE Idle]
    /\ UNCHANGED <<inited, alive, domain, usageAS, curRSS, maxRSS, mem, UID, writes,
                   maps, mapping, lock>>
    /\ UNCHANGED <<handle, cr3, uids>>
    /\ UNCHANGED kvars

\* the field data of the dropped MemoryManager is released; with the last
\* handle the MemoryManagerInternal and its page table go away
DropRelease(t) ==
    /\ task[t].op = "Drop" /\ task[t].pc = "release"
    /\ \E m \in {handle[t].mm} :
          IF StrongCount(m) = 1
          THEN \E D \in {DropMM([vmas |-> vmas[m], usageAS |-> usageAS[m],
                                  curRSS |-> curRSS[m], pt |-> pt[m], ref |-> refcnt,
                                  maprefs |-> maprefs, fatal |-> FALSE], m, FALSE)} :
                  /\ pt' = [pt EXCEPT ![m] = D.pt]
                  /\ refcnt' = D.ref
                  /\ alive' = [alive EXCEPT ![m] = FALSE]
          ELSE UNCHANGED <<pt, refcnt, alive>>
    /\ handle' = [handle EXCEPT ![t] = NoHandle]
    /\ cr3' = [cr3 EXCEPT ![t] = IF cr3[t] = handle[t].mm THEN 0 ELSE @]
    /\ task' = [task EXCEPT ![t] = Idle]
    /\ UNCHANGED <<inited, vmas, domain, usageAS, curRSS, maxRSS, mem, maprefs, UID,
                   writes, maps, last, mapping, lock, dropClears, uids>>
    /\ UNCHANGED kvars

\* the lifecycle system
NextLife ==
    \/ \E t \in Threads, op \in {"Empty", "Init"} : Enter(t, op)
    \/ \E t \in Threads : MakeMM(t)
    \/ \E m \in MMIds : DoFork(m, NoFail)
    \/ \E m \in MMIds : MMap(m, "vdso", AppStart, AppStart + 1, FALSE)
    \/ \E t \in Threads, u \in Threads : Clone(t, u)
    \/ \E t \in Threads, u \in Threads : Downgrade(t, u)
    \/ \E u \in Threads : Upgrade(u)
    \/ \E t \in Threads, to \in {0, 1} : SwitchTo(t, to)
    \/ \E t \in Threads : CallClear(t)
    \/ \E t \in Threads : DropStart(t)
    \/ \E t \in Threads : DropCheck(t)
    \/ \E t \in Threads : ClearBegin(t)
    \/ \E t \in Threads : ClearUnmap(t)
    \/ \E t \in Threads : DropRelease(t)

SpecLife == InitLife /\ [][NextLife]_vars

\* the last call was FixPermission
IsFixPermission == last.op \in {"FixPermissionW", "FixPermissionR"}

\* C11: whenever FixPermission(vAddr, len, writeReq, allowPartial) returns
\* Ok(len), every page that overlaps [vAddr, vAddr + len) is mapped in the
\* page table of the MM, and writable when writeReq is set.
C11_FixPermissionPostcondition ==
    (IsFixPermission /\ last.ok /\ last.val = last.arg.len)
    => \A p \in PagesOf(last.arg.vAddr, last.arg.len) :
          /\ pt[last.mm][p].frame # NoFrame
          /\ last.op = "FixPermissionW" => pt[last.mm][p].w

\* a write FixPermission over two pages of a writable private anonymous VMA,
\* none resident before, returned the whole length and left both writable
C11_Witness ==
    /\ last.op = "FixPermissionW" /\ last.ok /\ last.val = 2 * PAGE_SIZE
    /\ last.arg.vAddr = AppStart * PAGE_SIZE /\ last.arg.len = 2 * PAGE_SIZE
    /\ Len(vmas[last.mm]) = 2
    /\ vmas[last.mm][1] = Seg(1, 3, KindVMA("anon_private"))
    /\ \A p \in UserPages : pt[last.mm][p].frame \in AnonFrames /\ pt[last.mm][p].w

\* C12: a FixPermission with writeReq whose first page lies in a VMA without
\* effective write permission fails with EFAULT, for both values of
\* allowPartial and for aligned and unaligned vAddr; it never returns Ok.
C12_WriteToReadOnlyFaults ==
    ( /\ last.op = "FixPermissionW"
      /\ InUserVma(last.mm, PageOf(last.arg.vAddr))
      /\ ~VmaAt(last.mm, PageOf(last.arg.vAddr)).write )
    => (~last.ok /\ last.err = "EFAULT")

\* the public operations of the MM that take an address
PublicOps == {"FixPermissionW", "FixPermissionR", "V2PIov", "VirtualToPhy"}

\* C13: no public operation of the MM returns the AddressNotMap error of the
\* page table to its caller, and an address outside every VMA yields EFAULT.
C13_NoAddressNotMap ==
    last.op \in PublicOps
    => /\ last.err # "AddressNotMap"
       /\ FindSeg(vmas[last.mm], PageOf(last.arg.vAddr)) = 0
             => (~last.ok /\ last.err = "EFAULT")

RECURSIVE SumLen(_)
\* the sum of the lengths of a list of iovecs
SumLen(iovs) == IF iovs = <<>> THEN 0 ELSE Head(iovs).len + SumLen(Tail(iovs))

\* C14: a successful V2PIov(start, len) with len > 0 emits one iovec per page
\* touched by [start, start + len), in ascending virtual order (the k-th
\* iovec lies in the frame of the k-th page, the first at the offset of
\* start, the others at offset 0), none crosses a page boundary, and the
\* lengths sum to len.
C14_V2PIovShape ==
    (last.op = "V2PIov" /\ last.ok /\ last.arg.len > 0)
    => LET iovs == last.out
           first == PageOf(last.arg.vAddr)
       IN /\ Len(iovs) = Cardinality(PagesOf(last.arg.vAddr, last.arg.len))
          /\ \A k \in 1 .. Len(iovs) :
                /\ iovs[k].len > 0
                /\ (iovs[k].start % PAGE_SIZE) + iovs[k].len <= PAGE_SIZE
                /\ iovs[k].start =
                      Phys(pt[last.mm][first + k - 1].frame,
                           IF k = 1 THEN last.arg.vAddr % PAGE_SIZE ELSE 0)
          /\ SumLen(iovs) = last.arg.len

\* a V2PIov of one page's length from an unaligned address gave two iovecs,
\* in two different frames
C14_Witness ==
    /\ last.op = "V2PIov" /\ last.ok
    /\ last.arg.vAddr = UserStart + 1 /\ last.arg.len = PAGE_SIZE
    /\ Len(last.out) = 2
    /\ last.out[1].start \div PAGE_SIZE # last.out[2].start \div PAGE_SIZE

\* ============================================================ block lists
\* ToBlocks and GetBlocks on their own: the input is the vector of physical
\* page addresses GetAddresses filled for a range [start, start + len)
BlockFrames == 1 .. (MaxPages + 1)
AddrLists == UNION {[1 .. n -> {f * PAGE_SIZE : f \in BlockFrames}] : n \in 1 .. MaxPages}
\* the <<start, len>> with len > 0 whose range touches n pages from UserStart on
RangesOver(n) ==
    {r \in (UserStart .. (UserStart + PAGE_SIZE - 1)) \X (1 .. n * PAGE_SIZE) :
        RoundUp(r[1] + r[2]) - UserStart = n * PAGE_SIZE}

InitBlocks ==
    /\ InitMM
    /\ \E arr \in AddrLists : \E r \in RangesOver(Len(arr)) :
          last = [Last("GetAddresses", 1, 0, TRUE, "", 0, 0)
                    EXCEPT !.arg = [arr |-> arr, vAddr |-> r[1], len |-> r[2]]]

\* ToBlocks(bs, arr) on the vector
DoToBlocks ==
    /\ last.op \in {"GetAddresses", "GetBlocks"}
    /\ last' = [last EXCEPT !.op = "ToBlocks", !.out = ToBlocks(last.arg.arr)]
    /\ UNCHANGED <<inited, alive, vmas, domain, usageAS, curRSS, maxRSS, pt, refcnt,
                   mem, maprefs, UID, writes, maps>>
    /\ UNCHANGED <<task, mapping, lock>>
    /\ UNCHANGED <<handle, dropClears, cr3, uids>>
    /\ UNCHANGED kvars

\* the rest of GetBlocks(start, len, bs, writeable) on the vector
DoGetBlocks ==
    /\ last.op \in {"GetAddresses", "ToBlocks"}
    /\ last' = [last EXCEPT !.op = "GetBlocks",
                            !.out = GetBlocks(last.arg.arr, last.arg.vAddr, last.arg.len)]
    /\ UNCHANGED <<inited, alive, vmas, domain, usageAS, curRSS, maxRSS, pt, refcnt,
                   mem, maprefs, UID, writes, maps>>
    /\ UNCHANGED <<task, mapping, lock>>
    /\ UNCHANGED <<handle, dropClears, cr3, uids>>
    /\ UNCHANGED kvars

NextBlocks == DoToBlocks \/ DoGetBlocks

SpecBlocks == InitBlocks /\ [][NextBlocks]_vars

RECURSIVE PagesIn(_)
\* the page addresses a list of whole-page blocks covers, in order
PagesIn(bs) ==
    IF bs = <<>> THEN <<>>
    ELSE [i \in 1 .. (Head(bs).len \div PAGE_SIZE) |->
             Head(bs).start + (i - 1) * PAGE_SIZE] \o PagesIn(Tail(bs))

\* C15: ToBlocks emits the maximal runs of consecutive pages of a non-empty
\* list in input order: the blocks cover exactly the list, a new block
\* starts exactly at the indices i with arr[i] # arr[i-1] + PAGE_SIZE; and
\* after GetBlocks has trimmed the first block by the sub-page offset of
\* start and the last by the tail, the block lengths sum to len.
C15_BlocksCoalesce ==
    LET arr == last.arg.arr
        breaks == {i \in 2 .. Len(arr) : arr[i] # arr[i - 1] + PAGE_SIZE}
    IN /\ last.op = "ToBlocks"
          => /\ PagesIn(last.out) = arr
             /\ \A k \in 1 .. Len(last.out) :
                   last.out[k].len > 0 /\ last.out[k].len % PAGE_SIZE = 0
             /\ Len(last.out) = 1 + Cardinality(breaks)
             /\ \A k \in 1 .. (Len(last.out) - 1) :
                   last.out[k + 1].start # last.out[k].start + last.out[k].len
       /\ last.op = "GetBlocks"
          => /\ Len(last.out) = 1 + Cardinality(breaks)
             /\ last.out[1].start = arr[1] + (last.arg.vAddr % PAGE_SIZE)
             /\ SumLen(last.out) = last.arg.len

\* GetBlocks of an unaligned range over three pages, the first two
\* consecutive and the third not: two blocks, both trimmed
C15_Witness ==
    /\ last.op = "GetBlocks"
    /\ last.arg.arr = <<PAGE_SIZE, 2 * PAGE_SIZE, 4 * PAGE_SIZE>>
    /\ last.arg.vAddr = UserStart + 1 /\ last.arg.len = 3 * PAGE_SIZE - 2
    /\ last.out = <<IoVec(PAGE_SIZE + 1, 2 * PAGE_SIZE - 1),
                    IoVec(4 * PAGE_SIZE, PAGE_SIZE - 1)>>

\* C16 as stated: after a successful CompareAndSwap(addr, old, new) the
\* memory at addr equals new if and only if the value returned equals old.
C16_CasIff ==
    (last.op = "CompareAndSwap" /\ last.ok)
    => (ReadObj(last.mm, last.arg.vAddr, ObjLen) = last.arg.new
           <=> last.out = last.arg.old)

\* C16 amended: after a successful CompareAndSwap(addr, old, new), if the
\* value returned equals old the memory at addr equals new, and otherwise
\* the memory at addr still equals the value returned.
C16_CasAmended ==
    (last.op = "CompareAndSwap" /\ last.ok)
    => /\ last.out = last.arg.old
             => ReadObj(last.mm, last.arg.vAddr, ObjLen) = last.arg.new
       /\ last.out # last.arg.old
             => ReadObj(last.mm, last.arg.vAddr, ObjLen) = last.out

\* a CompareAndSwap across a page boundary found old and stored another value
C16_Witness ==
    /\ last.op = "CompareAndSwap" /\ last.ok
    /\ last.arg.vAddr = UserStart + 1
    /\ last.out = last.arg.old /\ last.arg.new # last.arg.old
    /\ ReadObj(last.mm, last.arg.vAddr, ObjLen) = last.arg.new

\* C20: CopyOutObj(x, a) that succeeds, followed by CopyInObj(a) by the same
\* task, returns x.
C20_RoundTrip ==
    [][( /\ last.op = "CopyOutObj" /\ last.ok
         /\ last'.op = "CopyInObj" /\ last'.mm = last.mm
         /\ last'.arg.vAddr = last.arg.vAddr )
       => (last'.ok /\ last'.out = last.arg.obj)]_vars

\* an object was read back across the boundary of two pages of a writable
\* private anonymous VMA right after the CopyOutObj that brought them in
C20_Witness ==
    /\ last.op = "CopyInObj" /\ last.ok /\ last.arg.after = "CopyOutObj"
    /\ last.arg.vAddr = UserStart + 1
    /\ last.out = [i \in 1 .. ObjLen |-> IF i = 1 THEN 1 ELSE 2]
    /\ writes = 2
    /\ vmas[last.mm][1] = Seg(1, 3, KindVMA("anon_private"))
    /\ pt[last.mm][1].frame # pt[last.mm][2].frame

\* thread t is inside a transfer: past the entry, not yet returned
InTransfer(t) == task[t].op \in TransferOps /\ task[t].pc \in {"fix", "copy"}
\* thread t is inside fault handling: in FixPermission, or in the body of
\* InstallPageWithAddr
InFault(t) ==
    \/ task[t].op = "FixPermission"
    \/ task[t].op = "InstallPageWithAddr" /\ task[t].pc = "install"
\* thread t is inside a bulk copy
InBulkCopy(t) == task[t].op = "CopyDataOut" /\ task[t].pc \in {"fix", "copy"}
\* SwapObj of thread t has read the object and not yet stored
SwapReadDone(t) == task[t].op = "SwapObj" /\ task[t].phase = 2

\* C17: SwapObj is atomic with respect to every other transfer: between its
\* read and its write no other thread's transfer reads or writes the object.
C17_SwapObjAtomic ==
    [][\A t \in Threads, u \in Threads :
          (t # u /\ SwapReadDone(t)) => ~CopyStep(u)]_vars

\* C18: every transfer holds the metadata lock in write mode from before its
\* permission fix until after its byte copy, so no two transfers overlap.
C18_TransfersHoldLock ==
    /\ \A t \in Threads : InTransfer(t) => mapping = t
    /\ \A t \in Threads, u \in Threads : (InTransfer(t) /\ InTransfer(u)) => t = u

\* C19: fault handling never runs concurrently with fault handling or with a
\* bulk copy of another thread.
C19_FaultsExcludeCopies ==
    \A t \in Threads, u \in Threads :
       (t # u /\ InFault(t)) => ~(InFault(u) \/ InBulkCopy(u))
\* ---------------------------------------------------------------- strings
\* C21: round trip for strings: for every string s without interior NUL and
\* every maxlen with Len(s) + 1 <= maxlen, a successful
\* CopyOutString(a, maxlen, s) directly followed by CopyInString(a, maxlen)
\* on the same MM returns (s, Ok).
C21_StringRoundTrip ==
    [][(/\ last.op = "CopyOutString" /\ last.ok
        /\ Len(last.arg.s) + 1 <= last.arg.len
        /\ last'.op = "CopyInString"
        /\ last'.mm = last.mm
        /\ last'.arg.vAddr = last.arg.vAddr
        /\ last'.arg.len = last.arg.len)
       => (last'.ok /\ last'.out = last.arg.s)]_vars

\* every byte of [vAddr, vAddr + len), and the byte at vAddr when len is 0,
\* lies in a user VMA of m
Readable(m, vAddr, len) ==
    /\ vAddr # 0
    /\ \A p \in PageOf(vAddr) .. PageOf(vAddr + Max(len, 1) - 1) : InUserVma(m, p)

Mapped(m, vAddr, len) ==
    /\ Readable(m, vAddr, len)
    /\ \A p \in PageOf(vAddr) .. PageOf(vAddr + Max(len, 1) - 1) :
          pt[m][p].frame # NoFrame

\* the pointers of the window CopyInVector reads at addr
Window(m, addr, maxElemSize) ==
    Pointers(ReadObj(m, addr, maxElemSize * PTR_SIZE), maxElemSize)

\* the array at addr is NULL-terminated inside the window and every pointer
\* before the NULL refers to a NUL-terminated string of less than
\* maxElemSize bytes in mapped memory
WellFormedArgv(m, addr, maxElemSize) ==
    /\ Mapped(m, addr, maxElemSize * PTR_SIZE)
    /\ FirstNul(Window(m, addr, maxElemSize)) # 0
    /\ \A i \in 1 .. (FirstNul(Window(m, addr, maxElemSize)) - 1) :
          /\ Mapped(m, Window(m, addr, maxElemSize)[i], maxElemSize)
          /\ FirstNul(ReadObj(m, Window(m, addr, maxElemSize)[i], maxElemSize)) # 0

\* the strings of a well-formed array
ArgvAt(m, addr, maxElemSize) ==
    LET ptrs == Window(m, addr, maxElemSize)
        Str(d) == SubSeq(d, 1, FirstNul(d) - 1)
    IN [i \in 1 .. (FirstNul(ptrs) - 1) |-> Str(ReadObj(m, ptrs[i], maxElemSize))]

RECURSIVE VecSize(_)
\* the budget a vector needs: the lengths plus one per element
VecSize(v) == IF v = <<>> THEN 0 ELSE Len(Head(v)) + 1 + VecSize(Tail(v))

\* C23: CopyInVector budget: max_total is decremented by len + 1 for each
\* string copied; on a well-formed argv a budget of at least the sum of the
\* len + 1 returns the strings, and a budget that is exhausted before the
\* NULL terminator is reached fails with ENOMEM, never with another error.
C23_VectorBudget ==
    (/\ last.op = "CopyInVector"
     /\ last.arg.vAddr # 0
     /\ WellFormedArgv(last.mm, last.arg.vAddr, last.arg.len))
    => LET Expect(argv) ==
               IF VecSize(argv) <= last.arg.total
               THEN last.ok /\ last.strs = argv
               ELSE ~last.ok /\ last.err = "ENOMEM"
       IN Expect(ArgvAt(last.mm, last.arg.vAddr, last.arg.len))

RECURSIVE StringAt(_, _, _)
\* the bytes a task of m with table t reads from address a up to the first
\* NUL (or up to the first byte that is not resident)
StringAt(t, mm, a) ==
    IF PageOf(a) \notin Pages THEN <<>>
    ELSE IF t[PageOf(a)].frame = NoFrame THEN <<>>
    ELSE IF mm[t[PageOf(a)].frame][a % PAGE_SIZE] = 0 THEN <<>>
    ELSE <<mm[t[PageOf(a)].frame][a % PAGE_SIZE]>> \o StringAt(t, mm, a + 1)

\* C24: a successful CopyInVector(addr, ...) returns exactly the strings
\* referenced by the pointers that precede the first NULL pointer of the
\* array at addr, in array order; addr = 0 returns the empty list without
\* touching memory; a pointer array with no NULL terminator inside the
\* window that is read does not yield a successful result.
C24_VectorResult ==
    [][last'.op = "CopyInVector"
       => /\ last'.arg.vAddr = 0
               => (last'.ok /\ last'.strs = <<>> /\ UNCHANGED <<pt, refcnt, mem>>)
          /\ (last'.arg.vAddr # 0 /\ last'.ok)
               => LET Expect(ptrs) ==
                          /\ FirstNul(ptrs) # 0
                          /\ last'.strs = [i \in 1 .. (FirstNul(ptrs) - 1) |->
                                             StringAt(pt'[last'.mm], mem', ptrs[i])]
                  IN Expect(Pointers([i \in 1 .. (last'.arg.len * PTR_SIZE) |->
                               mem'[pt'[last'.mm][PageOf(last'.arg.vAddr + i - 1)].frame]
                                   [(last'.arg.vAddr + i - 1) % PAGE_SIZE]],
                            last'.arg.len))]_vars

\* C25: CopyOutSlice(src, dst, len) with len < src.len fails with ERANGE and
\* leaves guest memory, the page table and the task's iovec scratch buffer
\* unchanged.
C25_SliceRange ==
    [][(last'.op = "CopyOutSlice" /\ last'.arg.len < Len(last'.arg.s))
       => (/\ ~last'.ok /\ last'.err = "ERANGE"
           /\ UNCHANGED <<mem, pt, refcnt, task>>)]_vars

\* a CopyOutSlice that failed with ERANGE on a destination the copy would
\* have reached: the whole of [dst, dst + src.len) lies in a user VMA
C25_Witness ==
    /\ last.op = "CopyOutSlice"
    /\ last.arg.len < Len(last.arg.s)
    /\ last.err = "ERANGE"
    /\ Readable(last.mm, last.arg.vAddr, Len(last.arg.s))

\* C26: for an initialised MM, Drop runs Clear exactly once, when the last
\* handle is released, in every interleaving of the drops: an initialised MM
\* whose handles are all gone has been cleared once, no drop is in Clear
\* while another strong handle is alive, and the drop of an uninitialised
\* (Empty) MM never runs Clear.
C26_ClearOnLastDrop ==
    \A m \in MMIds :
        /\ dropClears[m] <= 1
        /\ (inited[m] /\ ~alive[m]) => dropClears[m] = 1
        /\ \A t \in Threads :
              (task[t].op = "Drop" /\ task[t].pc \in {"clear", "unmap"}
               /\ handle[t].mm = m) => StrongCount(m) = 1
        /\ ~inited[m] => dropClears[m] = 0

\* C27: when Clear is called on the MM whose page table is loaded on the
\* executing CPU, the CPU is on the kernel page table before the first unmap
\* or VMA removal: a thread about to run the loop of Clear does not have the
\* table of that MM loaded, and the loop has run with the kernel page table
\* loaded whenever the table was active at the call.
C27_SwitchBeforeUnmap ==
    /\ \A t \in Threads : task[t].pc = "unmap" => cr3[t] # handle[t].mm
    /\ last.op = "Clear" =>
          /\ last.arg.loaded # last.mm
          /\ last.val = 1 => last.arg.loaded = 0

\* a Clear of an MM with a resident user page whose table was active at the call
C27_Witness ==
    /\ last.op = "Clear"
    /\ last.val = 1
    /\ last.n > 0

\* C28: NewUID returns 1 on its first call and strictly increasing values
\* afterwards, however the callers interleave: the ids of the MMs made by
\* Empty, Init and Fork, in the order of their NewUID calls, start at 1 and
\* increase strictly (so they differ pairwise), and the id of a Fork child
\* differs from its parent's.
C28_UidsUnique ==
    /\ Len(uids) > 0 => uids[1].uid = 1
    /\ \A i \in 1 .. Len(uids), j \in 1 .. Len(uids) :
          i < j => uids[i].uid < uids[j].uid
    /\ \A i \in 1 .. Len(uids) :
          uids[i].op = "Fork" => uids[i].uid # uids[i].parent

\* two MMs have been made, the second by Empty or Init
C28_Witness ==
    /\ Len(uids) = 2
    /\ uids[2].op \in {"Empty", "Init"}

\* C29: GenStatmSnapshot reports the virtual size in pages (usageAS /
\* PAGE_SIZE) as its first field and the current resident set in pages
\* (curRSS / PAGE_SIZE) as its second, followed by five zero fields.
C29_StatmFields ==
    last.op = "GenStatmSnapshot" =>
        last.out = FormatStatm(usageAS[last.mm] \div PAGE_SIZE,
                               curRSS[last.mm] \div PAGE_SIZE)

\* every frame but the kernel's is referenced exactly by the leaf of the
\* one user page, if that is mapped
OneFrameInstalled ==
    \A f \in Frames \ {KernelFrame} :
        refcnt[f] = IF VirtualToPhy(pt[ConcMM], ConcPage).frame = f THEN 1 ELSE 0

\* C30: the body of InstallPageWithAddr on an address that is already mapped
\* returns Ok and leaves the page table (frame and flags of the leaf), the
\* frames' reference counts and memory as they are: no frame is allocated and
\* no page of the mappable is mapped; hence after any number of calls for the
\* address, one after the other or at once, exactly one frame is installed.
C30_InstallOnce ==
    /\ []OneFrameInstalled
    /\ [][\A t \in Threads :
            (/\ task[t].pc = "install"
             /\ task'[t].pc # "install"
             /\ VirtualToPhy(pt[ConcMM], ConcPage).frame # NoFrame)
            => (last'.ok /\ pt' = pt /\ refcnt' = refcnt /\ mem' = mem)]_vars

\* the body of InstallPageWithAddr has run on an address that was mapped
C30_Witness ==
    /\ last.op = "InstallPageWithAddr"
    /\ last.val = 1
    /\ last.ok

\* ----------------------------------------------------------- page states
\* the leaf of the first application page of m
AppLeaf(m) == pt[m][AppStart]

\* C31: InstallPage on an unmapped page installs the leaf read-write if and
\* only if the VMA is shared and its effective permissions include write,
\* and read-only in every other case, for anonymous and file-backed VMAs.
C31_InstallFlags ==
    [][\A m \in MMIds :
          (/\ last'.op = "InstallPageWithAddr" /\ last'.mm = m /\ last'.ok
           /\ AppLeaf(m).frame = NoFrame)
          => /\ pt'[m][AppStart].frame # NoFrame
             /\ pt'[m][AppStart].w <=>
                   (~VmaAt(m, AppStart).private /\ VmaAt(m, AppStart).write)]_vars

\* InstallPageWithAddr has left a writable leaf in a shared file mapping
C31_Witness ==
    /\ last.op = "InstallPageWithAddr" /\ last.ok
    /\ AppLeaf(last.mm).frame # NoFrame
    /\ AppLeaf(last.mm).w
    /\ VmaAt(last.mm, AppStart).mappable # 0

\* C32: CopyOnWriteLocked on a mapped page (reached through a FixPermission
\* with writeReq on a resident page of a writable VMA): a writable leaf is
\* left as it is; with reference count 1 and no mappable the same frame stays
\* mapped and only the write bit is set, nothing is allocated; otherwise a
\* frame that was free is mapped read-write, holds the bytes of the old page,
\* and the old frame's bytes are as before.
C32_CopyOnWriteCases ==
    [][\A m \in MMIds :
          (/\ last'.op = "FixPermissionW" /\ last'.mm = m /\ last'.ok
           /\ AppLeaf(m).frame # NoFrame
           /\ VmaAt(m, AppStart).write)
          => IF AppLeaf(m).w
             THEN pt' = pt /\ refcnt' = refcnt /\ mem' = mem
             ELSE IF refcnt[AppLeaf(m).frame] = 1 /\ VmaAt(m, AppStart).mappable = 0
             THEN /\ pt'[m][AppStart] = [AppLeaf(m) EXCEPT !.w = TRUE]
                  /\ refcnt' = refcnt
                  /\ mem' = mem
             ELSE /\ pt'[m][AppStart].frame # AppLeaf(m).frame
                  /\ refcnt[pt'[m][AppStart].frame] = 0
                  /\ pt'[m][AppStart].w
                  /\ mem'[pt'[m][AppStart].frame] = mem[AppLeaf(m).frame]
                  /\ mem'[AppLeaf(m).frame] = mem[AppLeaf(m).frame]]_vars

\* a write fault has replaced a frame that holds written bytes by a copy, the
\* old frame still being mapped by the other MM
C32_Witness ==
    /\ last.op = "FixPermissionW" /\ last.ok
    /\ \E o \in MMIds \ {last.mm} :
          /\ alive[o]
          /\ pt[o][AppStart].frame # NoFrame
          /\ AppLeaf(last.mm).frame # pt[o][AppStart].frame
          /\ AppLeaf(last.mm).w
          /\ mem[AppLeaf(last.mm).frame] = mem[pt[o][AppStart].frame]
          /\ mem[AppLeaf(last.mm).frame][0] = 2

\* C33: when two threads of one MM take a write fault on the same read-only
\* page whose frame is shared (file-backed here) at once, one new frame is
\* allocated for the page: every CopyOnWrite returns, the page is writable
\* afterwards, the call that finds the leaf writable changes nothing, the
\* other allocates one frame, and never is more than one anonymous frame in
\* use for the page.
C33_CowRace ==
    /\ [](Cardinality({f \in AnonFrames : refcnt[f] > 0}) <= 1)
    /\ [][\A t \in Threads :
            (task[t].pc = "cow" /\ task'[t].pc # "cow")
            => /\ last'.op = "CopyOnWrite" /\ last'.ok
               /\ task'[t] = Idle
               /\ pt'[ConcMM][ConcPage].w
               /\ IF pt[ConcMM][ConcPage].w
                  THEN pt' = pt /\ refcnt' = refcnt /\ mem' = mem
                  ELSE Cardinality({f \in Frames : refcnt[f] = 0 /\ refcnt'[f] > 0})
                         = IF VmaAt(ConcMM, ConcPage).mappable # 0 THEN 1 ELSE 0]_vars

\* a CopyOnWrite on a private file page has found the leaf writable: the
\* other thread's write fault on the page has won
C33_Witness ==
    /\ last.op = "CopyOnWrite"
    /\ last.val = 1
    /\ VmaAt(ConcMM, ConcPage).mappable # 0
    /\ VmaAt(ConcMM, ConcPage).private
    /\ pt[ConcMM][ConcPage].frame \in AnonFrames

\* the state of a page with the leaf l
PageState(l) == IF l.frame = NoFrame THEN "UNMAPPED"
                ELSE IF l.w THEN "RESIDENT_RW" ELSE "RESIDENT_RO"
\* the calls that reach InstallPage, CopyOnWriteLocked, an unmapping
InstallOps == {"InstallPageWithAddr", "FixPermissionR", "FixPermissionW", "CopyDataOut"}
CowOps == {"FixPermissionW"}
UnmapOps == {"RemoveVMAsLocked", "Clear"}

MetaAt(segs, p) ==
    IF FindSeg(segs, p) = 0 THEN [kernel |-> FALSE]
    ELSE LET seg == segs[FindSeg(segs, p)]
         IN IF seg.vma.mappable # 0
            THEN [seg.vma EXCEPT !.offset = seg.vma.offset + (p - seg.start)]
            ELSE seg.vma

\* C35: a successful RemoveVMAsLocked(range) removes exactly the parts of
\* VMAs inside range: no page of range is in a VMA afterwards, every page
\* outside range is in a VMA with the same metadata as before (or in none, as
\* before) and keeps its leaf, and usageAS decreases by the length removed.
C35_RemoveExact ==
    [][\A m \in MMIds, s \in UserPages, e \in 2 .. AppEnd :
          (Munmap(m, s, e) /\ last'.ok)
          => /\ \A p \in s .. (e - 1) : FindSeg(vmas'[m], p) = 0
             /\ \A p \in Pages \ (s .. (e - 1)) :
                   /\ MetaAt(vmas'[m], p) = MetaAt(vmas[m], p)
                   /\ pt'[m][p] = pt[m][p]
             /\ usageAS'[m] =
                   U64Sub(usageAS[m],
                          PAGE_SIZE * Cardinality({p \in s .. (e - 1) :
                                                      FindSeg(vmas[m], p) # 0}))]_vars

\* a RemoveVMAsLocked has removed a part, with a resident page, of the one
\* VMA that was mapped, and the other part is left
C35_Witness ==
    /\ last.op = "RemoveVMAsLocked" /\ last.ok
    /\ last.n >= 1
    /\ maps = 1
    /\ usageAS[last.mm] = PAGE_SIZE
    /\ \E p \in UserPages : FindSeg(vmas[last.mm], p) # 0

\* C36: curRSS never underflows: no RemoveVMAsLocked subtracts more from
\* curRSS than curRSS holds.
C36_RssNoUnderflow ==
    [][\A m \in MMIds :
          (last'.op = "RemoveVMAsLocked" /\ last'.mm = m) => curRSS'[m] <= curRSS[m]]_vars


\* ------------------------------------------------------- short returns
\* C37: whenever FixPermission(vAddr, len, writeReq, allowPartial) returns
\* Ok(n), n is at most len: the short return addr - vAddr is never computed
\* with addr below vAddr.
C37_FixPermissionReturn ==
    (IsFixPermission /\ last.ok) => last.val <= last.arg.len

\* C38: a successful V2PIov with writable set emits iovecs only for pages
\* that are writable in the page table of the MM (the k-th iovec is the one
\* of the k-th page of the range).
C38_V2PIovWritable ==
    (last.op = "V2PIov" /\ last.ok /\ last.arg.writable)
    => \A k \in 1 .. Len(last.out) :
          pt[last.mm][PageOf(last.arg.vAddr) + k - 1].w


\* ------------------------------------------------------------ progress
\* Scheduling of the threads: a thread that can take a step of its entry
\* point is run eventually, and a thread waiting for a lock gets it when the
\* lock is free again and again.
FairConc ==
    \A t \in Threads :
       /\ WF_vars(TranslateStep(t))
       /\ WF_vars(CopyStep(t))
       /\ WF_vars(FixVtp(t))
       /\ WF_vars(InstallStep(t))
       /\ WF_vars(FixCheck(t))
       /\ WF_vars(CowStep(t))
       /\ SF_vars(AcquireMapping(t))
       /\ SF_vars(AcquireMutex(t))

SpecConcFair == SpecConc /\ FairConc

\* C39: every call of SwapObj on an object in mapped memory returns.
C39_SwapObjReturns ==
    \A t \in Threads :
       (task[t].op = "SwapObj" /\ InUserVma(ConcMM, ConcPage)) ~> (task[t] = Idle)

\* ------------------------------------------------------------- kernel
\* Kernel::CreateProcess, run by the threads step by step.  The positions:
\*   "extMu"  before self.extMu.lock() returns
\*   "guard"  the lock is taken; its guard is a temporary of the statement
\*   "new"    before newThreadGroup .. IDOfThreadGroup
\*   "check"  before let isNone = self.globalInit.lock().is_none()
\*   "set"    before if isNone { *self.globalInit.lock() = Some(tg) }
MaxProcs == 3
\* everything but the state of the Kernel and the record of the last call
mvars == <<inited, alive, vmas, domain, usageAS, curRSS, maxRSS, pt, refcnt, mem,
           maprefs, UID, writes, maps, task, mapping, lock, handle, dropClears,
           cr3, uids>>

\* thread t calls CreateProcess(args)
CreateProcess(t) ==
    /\ proc[t].pc = "idle"
    /\ created < MaxProcs
    /\ proc' = [proc EXCEPT ![t].pc = "extMu"]
    /\ UNCHANGED <<extMu, globalInit, created, last>>
    /\ UNCHANGED mvars

\* self.extMu.lock() returns: the mutex was free
ExtMuLock(t) ==
    /\ proc[t].pc = "extMu"
    /\ extMu = 0
    /\ extMu' = t
    /\ proc' = [proc EXCEPT ![t].pc = "guard"]
    /\ UNCHANGED <<globalInit, created, last>>
    /\ UNCHANGED mvars

\* the end of the statement self.extMu.lock(); drops the guard, which is
\* bound to no variable
ExtMuDrop(t) ==
    /\ proc[t].pc = "guard"
    /\ extMu' = IF extMu = t THEN 0 ELSE extMu
    /\ proc' = [proc EXCEPT ![t].pc = "new"]
    /\ UNCHANGED <<globalInit, created, last>>
    /\ UNCHANGED mvars

\* newThreadGroup, the checks of the arguments, and NewTask: valid is whether
\* args name an absolute path, taskOk whether NewTask succeeds
NewTask(t, valid, taskOk) ==
    /\ proc[t].pc = "new"
    /\ created' = created + 1
    /\ IF valid /\ taskOk
       THEN /\ proc' = [proc EXCEPT ![t].pc = "check", ![t].tg = created + 1]
            /\ last' = last
       ELSE /\ proc' = [proc EXCEPT ![t] = NoProc]
            /\ last' = Last("CreateProcess", 1, 0, FALSE,
                            IF valid THEN "NewTask" ELSE "Common", created + 1, t)
    /\ UNCHANGED <<extMu, globalInit>>
    /\ UNCHANGED mvars

\* let isNone = self.globalInit.lock().is_none(); the guard of globalInit is
\* dropped at the end of the statement
CheckGlobalInit(t) ==
    /\ proc[t].pc = "check"
    /\ proc' = [proc EXCEPT ![t].pc = "set", ![t].isNone = (globalInit = 0)]
    /\ UNCHANGED <<extMu, globalInit, created, last>>
    /\ UNCHANGED mvars

\* if isNone { *self.globalInit.lock() = Some(tg.clone()) }; return Ok((tg, tgid))
SetGlobalInit(t) ==
    /\ proc[t].pc = "set"
    /\ globalInit' = IF proc[t].isNone THEN proc[t].tg ELSE globalInit
    /\ proc' = [proc EXCEPT ![t] = NoProc]
    /\ last' = Last("CreateProcess", 1, 0, TRUE, "", proc[t].tg, t)
    /\ UNCHANGED <<extMu, created>>
    /\ UNCHANGED mvars

NextKernel ==
    \/ \E t \in Threads : CreateProcess(t)
    \/ \E t \in Threads : ExtMuLock(t)
    \/ \E t \in Threads : ExtMuDrop(t)
    \/ \E t \in Threads, valid \in BOOLEAN, taskOk \in BOOLEAN : NewTask(t, valid, taskOk)
    \/ \E t \in Threads : CheckGlobalInit(t)
    \/ \E t \in Threads : SetGlobalInit(t)

SpecKernel == Init /\ [][NextKernel]_vars

\* C40: globalInit is assigned once: once it holds a thread group, no step
\* of any CreateProcess changes it.
C40_GlobalInitOnce ==
    [][globalInit # 0 => globalInit' = globalInit]_vars

====
